---- MODULE Spec2Model ----
(***************************************************************************)
(* file_archive: a content-addressed object store (objects/<xx>/<rest>)    *)
(* with a typed metadata index (one SQL table "metadata", one row per      *)
(* attribute of an entity).                                                *)
(*                                                                         *)
(* Conventions of the model                                                *)
(*  - A Python str is a TLA+ string; Chars(s) gives its characters.        *)
(*  - A Python value is a record whose only field names its Python type:   *)
(*    [str |-> s], [int |-> n], [float |-> s], [dict |-> d].               *)
(*  - A Python dict is a total function over the key universe, with        *)
(*    Absent for the keys the dict does not hold.                          *)
(*  - sha1 is collision free: the digest of a metadata record is modelled  *)
(*    by the byte string fed to sha1 (its pre-image), the digest of a file *)
(*    or directory by the table HexDigest.                                 *)
(***************************************************************************)
EXTENDS Integers, Sequences, FiniteSets, Bags, TLC

(***************************************************************************)
(* Bounds of the model                                                     *)
(***************************************************************************)
\* at most this many entities are ever in the index (guard of the add calls)
MaxEntities == 2
\* the limits passed to query run from 0 to this number
MaxLimit == 2

(***************************************************************************)
(* Python values                                                           *)
(***************************************************************************)
Absent == [absent |-> TRUE]
PyStr(s) == [str |-> s]
PyInt(n) == [int |-> n]
PyFloat(s) == [float |-> s]
PyDict(d) == [dict |-> d]

IsStr(v) == DOMAIN v = {"str"}
IsInt(v) == DOMAIN v = {"int"}
IsDict(v) == DOMAIN v = {"dict"}

\* the keys a dict over the key universe K actually holds
Keys(d) == {k \in DOMAIN d : d[k] # Absent}

(***************************************************************************)
(* Strings: the characters of every str of the universe, in order.         *)
(***************************************************************************)
Chars(s) ==
  CASE s = "" -> << >>
    [] s \in {"a", "b", "c", "d", "e", "f", "k", "l", "o", "r", "t", "u"} -> <<s>>
    [] s = "l1" -> <<"l", "1">>
    [] s = "l2" -> <<"l", "2">>
    [] s = "hash" -> <<"h", "a", "s", "h">>
    [] s = "x" -> <<"x">>
    [] s = "12" -> <<"1", "2">>
    [] s = "ab1" -> <<"a", "b", "1">>
    [] s = "ab2" -> <<"a", "b", "2">>

\* code point order of the characters in use (ASCII)
Alphabet == <<"-", "0", "1", "2", "3", "4", "5", "6", "7", "8", "9", ":",
              "a", "b", "c", "d", "e", "f", "h", "i", "k", "l", "o", "r", "s",
              "t", "u", "x">>

Ord(ch) == CHOOSE i \in 1..Len(Alphabet) : Alphabet[i] = ch

\* Python's str comparison a < b on character sequences
RECURSIVE SeqLess(_, _)
SeqLess(a, b) ==
  IF b = << >> THEN FALSE
  ELSE IF a = << >> THEN TRUE
  ELSE IF Ord(Head(a)) # Ord(Head(b)) THEN Ord(Head(a)) < Ord(Head(b))
  ELSE SeqLess(Tail(a), Tail(b))

StrLess(s, t) == SeqLess(Chars(s), Chars(t))

\* '%d' % n
Digit(n) == Alphabet[n + 2]
RECURSIVE NatToStr(_)
NatToStr(n) == IF n < 10 THEN <<Digit(n)>> ELSE NatToStr(n \div 10) \o <<Digit(n % 10)>>
IntToStr(n) == IF n < 0 THEN <<"-">> \o NatToStr(0 - n) ELSE NatToStr(n)

\* sorted(S): the elements of a set of str in ascending order
RECURSIVE SortedStrs(_)
SortedStrs(S) ==
  IF S = {} THEN << >>
  ELSE LET lo == CHOOSE s \in S : \A t \in S \ {s} : StrLess(s, t)
       IN  <<lo>> \o SortedStrs(S \ {lo})

(***************************************************************************)
(* The caller's files and directories, and their content digests           *)
(***************************************************************************)
Sources == {"file1", "dir3"}
IsDirectory(src) == src = "dir3"

\* hash_file / hash_directory: sha1 over the tagged content, as a table.
\* Both digests fall in the same shard directory ("ab").
HexDigest(src) == IF src = "file1" THEN "ab1" ELSE "ab2"
Digests == {HexDigest(src) : src \in Sources}

\* filehash[:2] and filehash[2:] of _make_filename
ShardLen == 2
Shard(filehash) == SubSeq(Chars(filehash), 1, ShardLen)
Leaf(filehash) == SubSeq(Chars(filehash), ShardLen + 1, Len(Chars(filehash)))

(***************************************************************************)
(* Metadata as the caller passes it                                        *)
(***************************************************************************)
UserKeys == {"", "c", "d"}
MetaKeys == UserKeys \cup {"hash"}

\* the order in which a dict of the universe lists its keys: the caller's
\* keys as written, then 'hash', which add_file and add_directory set last
KeyOrder == <<"", "c", "d", "hash">>
KeyRank(k) == CHOOSE i \in 1..Len(KeyOrder) : KeyOrder[i] = k
FirstKey(S) == CHOOSE k \in S : \A j \in S : KeyRank(k) <= KeyRank(j)

\* {'type': t, 'value': v} and malformed variants of it
Tagged(t, v, o) == PyDict([type |-> t, value |-> v, other |-> o])

BareValues == {PyInt(12), PyStr("12")}
TaggedValues == {Tagged(PyStr("int"), PyInt(12), Absent),
                 Tagged(PyStr("str"), PyStr("12"), Absent)}
MalformedValues == {PyFloat("1.5"),
                    Tagged(PyStr("str"), PyStr("12"), PyStr("x")),
                    Tagged(PyStr("int"), Absent, Absent),
                    Tagged(Absent, PyInt(12), Absent),
                    Tagged(PyStr("float"), PyStr("12"), Absent),
                    Tagged(PyStr("int"), PyStr("12"), Absent),
                    Tagged(PyStr("str"), PyInt(12), Absent)}

EmptyDict == [k \in MetaKeys |-> Absent]
\* the dicts the callers pass: 'c' absent or a bare value, next to 'd' absent
\* or the str 'x'; 'c' a tagged or a malformed value; one dict that names
\* the reserved key 'hash' itself; and one whose only key is the empty str
RawMetadata ==
  {[EmptyDict EXCEPT !["c"] = c, !["d"] = d] :
     <<c, d>> \in (BareValues \cup {Absent}) \X {Absent, PyStr("x")}}
  \cup {[EmptyDict EXCEPT !["c"] = c] : c \in TaggedValues \cup MalformedValues}
  \cup {[EmptyDict EXCEPT !["hash"] = PyStr("x")]}
  \cup {[EmptyDict EXCEPT ![""] = PyStr("x")]}

(***************************************************************************)
(* database.normalize_metadata                                             *)
(***************************************************************************)
\* the error one value raises, "" if none
NormalizeValueError(mvalue) ==
  IF IsStr(mvalue) \/ IsInt(mvalue) THEN ""
  ELSE IF IsDict(mvalue)
       THEN IF Keys(mvalue.dict) = {"type", "value"} THEN "" ELSE "ValueError"
       ELSE "TypeError"

\* {'type': t, 'value': mvalue} for one accepted value; the tag t is the str
\* the caller gave, whatever it is
NormalizeValue(mvalue) ==
  IF IsStr(mvalue) THEN [type |-> "str", value |-> mvalue]
  ELSE IF IsInt(mvalue) THEN [type |-> "int", value |-> mvalue]
  ELSE [type |-> mvalue.dict["type"].str, value |-> mvalue.dict["value"]]

NormalizeError(metadata) ==
  LET bad == {k \in Keys(metadata) : NormalizeValueError(metadata[k]) # ""}
  IN  IF bad = {} THEN ""
      ELSE NormalizeValueError(metadata[CHOOSE k \in bad : TRUE])

normalize_metadata(metadata) ==
  [k \in DOMAIN metadata |->
     IF metadata[k] = Absent THEN Absent ELSE NormalizeValue(metadata[k])]

(***************************************************************************)
(* __init__.hash_metadata                                                  *)
(***************************************************************************)
\* '%d:%s' % (len(s), s)
LenPrefixed(s) == IntToStr(Len(Chars(s))) \o <<":">> \o Chars(s)

\* the formatting of one normalized value raises TypeError when '%d' is given
\* a str, or len() an int
EncodeValueError(v) ==
  IF v.type = "int"
  THEN IF IsInt(v.value) THEN "" ELSE "TypeError"
  ELSE IF IsStr(v.value) THEN "" ELSE "TypeError"

EncodeValue(v) ==
  IF v.type = "int"
  THEN <<"i">> \o IntToStr(v.value.int) \o <<"e">>
  ELSE LenPrefixed(v.value.str)

RECURSIVE EncodeItems(_, _)
EncodeItems(norm, keys) ==
  IF keys = << >> THEN << >>
  ELSE LenPrefixed(Head(keys)) \o EncodeValue(norm[Head(keys)])
         \o EncodeItems(norm, Tail(keys))

\* the error hash_metadata raises on a dict that holds 'hash', "" if none
HashMetadataError(metadata) ==
  IF NormalizeError(metadata) # "" THEN NormalizeError(metadata)
  ELSE LET norm == normalize_metadata(metadata)
       IN  IF \E k \in Keys(norm) : EncodeValueError(norm[k]) # ""
           THEN "TypeError" ELSE ""

\* the objectid: sha1 of the encoding of the sorted items, modelled by the
\* encoding itself
hash_metadata(metadata) ==
  LET norm == normalize_metadata(metadata)
  IN  EncodeItems(norm, SortedStrs(Keys(norm)))

\* metadata = dict(metadata); metadata['hash'] = filehash
WithHash(metadata, filehash) == [metadata EXCEPT !["hash"] = PyStr(filehash)]

(***************************************************************************)
(* The metadata table: a bag of rows (the table has no uniqueness          *)
(* constraint)                                                             *)
(***************************************************************************)
NULL == [null |-> TRUE]

\* the str and int values of the universe
StrUniverse == {"", "c", "d", "hash", "x", "12", "ab1", "ab2"}
IntUniverse == {12}

\* a value bound to a column declared TEXT: sqlite stores an integer as its
\* decimal text
TextAffinity(v) ==
  IF IsInt(v) THEN PyStr(CHOOSE s \in StrUniverse : Chars(s) = IntToStr(v.int))
  ELSE v

\* a value bound to a column declared INTEGER: sqlite stores a text that
\* reads as an integer as that integer, any other text as it is
IntegerAffinity(v) ==
  IF IsStr(v) /\ \E n \in IntUniverse : IntToStr(n) = Chars(v.str)
  THEN PyInt(CHOOSE n \in IntUniverse : IntToStr(n) = Chars(v.str))
  ELSE v

\* INSERT INTO metadata(objectid, mkey, mvalue_<t>) VALUES(...), t a column
Row(objectid, mkey, t, v) ==
  [objectid |-> objectid, mkey |-> mkey,
   mvalue_str |-> IF t = "str" THEN TextAffinity(v) ELSE NULL,
   mvalue_int |-> IF t = "int" THEN IntegerAffinity(v) ELSE NULL]

\* MetadataStore._TYPES: the types that have a value column mvalue_<t>
ColumnTypes == {"str", "int"}

\* SELECT * FROM metadata WHERE objectid = :objectid
RowsOf(table, objectid) == {r \in BagToSet(table) : r.objectid = objectid}

\* SELECT DISTINCT objectid FROM metadata
ObjectIds(table) == {r.objectid : r \in BagToSet(table)}

\* DeleteRows that leaves the 'hash' row of the entity in the table
DeleteRows_KeepsHash(table, objectid) ==
  LET keep == {r \in BagToSet(table) : r.objectid # objectid \/ r.mkey = "hash"}
  IN  [r \in keep |-> table[r]]

\* DELETE FROM metadata WHERE objectid = :objectid
DeleteRows(table, objectid) ==
  LET keep == {r \in BagToSet(table) : r.objectid # objectid}
  IN  [r \in keep |-> table[r]]

(***************************************************************************)
(* database.ResultBuilder                                                  *)
(***************************************************************************)
get_value(r) == IF r.mvalue_str # NULL THEN r.mvalue_str ELSE r.mvalue_int

\* the rows of one objectid, each as often as the table holds it, in the
\* order of their insertion (the index on objectid lists them by rowid)
RECURSIVE RowsInOrder(_, _)
RowsInOrder(table, rows) ==
  IF rows = {} THEN << >>
  ELSE LET r == CHOOSE x \in rows :
                  \A y \in rows : KeyRank(x.mkey) <= KeyRank(y.mkey)
       IN  [i \in 1..table[r] |-> r] \o RowsInOrder(table, rows \ {r})

\* the rows of a result set as the cursor yields them under ORDER BY
\* objectid: ascending objectid
RECURSIVE OrderByObjectid(_, _)
OrderByObjectid(table, rows) ==
  IF rows = {} THEN << >>
  ELSE LET ids   == {r.objectid : r \in rows}
           first == CHOOSE o \in ids : \A y \in ids : ~SeqLess(y, o)
       IN  RowsInOrder(table, {r \in rows : r.objectid = first})
             \o OrderByObjectid(table, {r \in rows : r.objectid # first})

\* the number of leading rows of the cursor that carry the objectid of the
\* first one
RECURSIVE GroupLen(_, _)
GroupLen(rows, objectid) ==
  IF rows = << >> \/ Head(rows).objectid # objectid THEN 0
  ELSE 1 + GroupLen(Tail(rows), objectid)

\* the dict built from one group: the first row is kept only if its mkey is
\* truthy, a later row overrides an earlier one with the same mkey
GroupDict(group) ==
  [k \in MetaKeys |->
     LET at == {i \in 1..Len(group) :
                  group[i].mkey = k /\ (i = 1 => group[i].mkey # "")}
     IN  IF at = {} THEN Absent
         ELSE get_value(group[CHOOSE i \in at : \A j \in at : j <= i])]

\* the (objectid, metadata) pairs ResultBuilder yields for a cursor
RECURSIVE ResultBuilder(_)
ResultBuilder(rows) ==
  IF rows = << >> THEN << >>
  ELSE LET n == GroupLen(rows, Head(rows).objectid)
       IN  <<[objectid |-> Head(rows).objectid,
              metadata |-> GroupDict(SubSeq(rows, 1, n))]>>
             \o ResultBuilder(SubSeq(rows, n + 1, Len(rows)))

\* assert 'hash' in dct
ResultBuilderError(results) ==
  IF \E i \in 1..Len(results) : results[i].metadata["hash"] = Absent
  THEN "AssertionError" ELSE ""

(***************************************************************************)
(* MetadataStore.get, MetadataStore.has_filehash                           *)
(***************************************************************************)
MetadataGetError(table, objectid) ==
  IF RowsOf(table, objectid) = {} THEN "KeyError"
  ELSE ResultBuilderError(ResultBuilder(OrderByObjectid(table, RowsOf(table, objectid))))

MetadataGet(table, objectid) ==
  ResultBuilder(OrderByObjectid(table, RowsOf(table, objectid)))[1].metadata

has_filehash(table, filehash) ==
  \E r \in BagToSet(table) : r.mkey = "hash" /\ r.mvalue_str = PyStr(filehash)

(***************************************************************************)
(* Query conditions: a dict from key to a bare value or to a dict with     *)
(* 'type' and operators                                                    *)
(***************************************************************************)
Operators == {"equal", "gt", "lt", "other"}

Cond(t, equal, gt, lt, other) ==
  PyDict([type |-> t, equal |-> equal, gt |-> gt, lt |-> lt, other |-> other])

\* the conditions tried on key 'c'
CondsC ==
  {PyInt(12), PyStr("12"),
   Cond(Absent, Absent, Absent, Absent, Absent),
   Cond(PyStr("int"), Absent, Absent, Absent, Absent),
   Cond(PyStr("str"), Absent, Absent, Absent, Absent),
   Cond(PyStr("int"), Absent, PyInt(5), Absent, Absent),
   Cond(PyStr("int"), Absent, PyInt(12), Absent, Absent),
   Cond(PyStr("int"), Absent, PyInt(5), PyInt(15), Absent),
   Cond(PyStr("int"), Absent, Absent, PyInt(12), Absent),
   Cond(PyStr("int"), PyInt(12), Absent, Absent, Absent),
   Cond(PyStr("str"), PyStr("12"), Absent, Absent, Absent),
   Cond(PyStr("int"), PyStr("12"), Absent, Absent, Absent)}

\* the conditions _make_conditions refuses
CondsRefused ==
  {PyFloat("1.5"),
   Cond(Absent, Absent, PyInt(5), Absent, Absent),
   Cond(PyStr("float"), Absent, Absent, Absent, Absent),
   Cond(PyStr("str"), Absent, PyStr("12"), Absent, Absent),
   Cond(PyStr("int"), Absent, Absent, Absent, PyStr("x"))}

\* the conditions tried on key 'd'
CondsD ==
  {PyStr("x"),
   Cond(Absent, Absent, Absent, Absent, Absent),
   Cond(PyStr("str"), Absent, Absent, Absent, Absent),
   Cond(PyStr("int"), Absent, Absent, Absent, Absent)}

\* the condition dicts handed to query
QueryConditions ==
  {EmptyDict}
    \cup {[EmptyDict EXCEPT !["c"] = c] : c \in CondsC \cup CondsRefused}
    \cup {[EmptyDict EXCEPT !["d"] = d] : d \in CondsD}
    \cup {[EmptyDict EXCEPT !["c"] = c, !["d"] = d] :
             c \in {PyInt(12), Cond(PyStr("int"), Absent, PyInt(5), PyInt(15), Absent)},
             d \in {PyStr("x"), Cond(PyStr("int"), Absent, Absent, Absent, Absent)}}
    \cup {[EmptyDict EXCEPT !["c"] = PyInt(12),
                            !["d"] = Cond(Absent, Absent, PyInt(5), Absent, Absent)]}

(***************************************************************************)
(* MetadataStore._make_conditions                                          *)
(***************************************************************************)
\* the (operator, operand) items of a condition dict besides 'type'
OperatorsOf(value) == Keys(value.dict) \ {"type"}

\* the type a condition is about: "" is None
CondType(value) ==
  IF IsStr(value) THEN "str"
  ELSE IF IsInt(value) THEN "int"
  ELSE IF Keys(value.dict) = {} THEN ""
  ELSE value.dict["type"].str

\* CondError that lets every operator pass
CondError_OperatorsUnchecked(value) ==
  IF IsStr(value) \/ IsInt(value) THEN ""
  ELSE IF ~IsDict(value) THEN "TypeError"
  ELSE IF Keys(value.dict) = {} THEN ""
  ELSE IF value.dict["type"] = Absent THEN "TypeError"
  ELSE IF value.dict["type"] \notin {PyStr("str"), PyStr("int")} THEN "TypeError"
  ELSE ""

\* the error _make_conditions raises for one item, "" if none
CondError(value) ==
  IF IsStr(value) \/ IsInt(value) THEN ""
  ELSE IF ~IsDict(value) THEN "TypeError"
  ELSE IF Keys(value.dict) = {} THEN ""
  ELSE IF value.dict["type"] = Absent THEN "TypeError"
  ELSE IF value.dict["type"] \notin {PyStr("str"), PyStr("int")} THEN "TypeError"
  ELSE IF \E k \in OperatorsOf(value) :
            ~(k = "equal" \/ (value.dict["type"] = PyStr("int") /\ k \in {"lt", "gt"}))
       THEN "ValueError"
  ELSE ""

\* `if req:` - req is the list [('equal', value)] for a bare value, the
\* empty dict itself for {}, and the object iter(req.items()) for any other
\* dict: an iterator object is true whether or not it has items
ReqTruthy(value) == IsStr(value) \/ IsInt(value) \/ Keys(value.dict) # {}

\* `elif t is not None:` adds '<var> IS NOT NULL'
ChecksNotNull(value) == ~ReqTruthy(value) /\ CondType(value) # ""

\* the items of req
Req(value) ==
  IF IsDict(value) THEN [k \in Operators |-> value.dict[k]]
  ELSE [k \in Operators |-> IF k = "equal" THEN value ELSE Absent]

\* sqlite's order of stored values: an integer is less than any text
SqlLess(a, b) ==
  IF IsInt(a) /\ IsInt(b) THEN a.int < b.int
  ELSE IF IsInt(a) THEN TRUE
  ELSE IF IsInt(b) THEN FALSE
  ELSE StrLess(a.str, b.str)

\* a bound parameter compared with a column takes the column's affinity
Bound(t, v) == IF t = "int" THEN IntegerAffinity(v) ELSE TextAffinity(v)

\* '<var> = :val', '<var> < :val', '<var> > :val' on var = mvalue_<t>;
\* a comparison with NULL is not true
Compare(r, t, k, v) ==
  LET var == IF t = "str" THEN r.mvalue_str ELSE r.mvalue_int
  IN  /\ var # NULL
      /\ CASE k = "equal" -> var = Bound(t, v)
            [] k = "lt" -> SqlLess(var, Bound(t, v))
            [] k = "gt" -> SqlLess(Bound(t, v), var)

\* i<n>.mkey = :key<n> AND <cond>, for a condition without error
RowMatches(r, key, value) ==
  /\ r.mkey = key
  /\ ReqTruthy(value) =>
       \A k \in Operators : Req(value)[k] # Absent =>
                               Compare(r, CondType(value), k, Req(value)[k])
  /\ ChecksNotNull(value) =>
       (IF CondType(value) = "str" THEN r.mvalue_str ELSE r.mvalue_int) # NULL

(***************************************************************************)
(* MetadataStore.query_all                                                 *)
(***************************************************************************)
\* QueryIds that selects the objectids matching some condition, not all
QueryIds_Disjunctive(table, conditions) ==
  IF Keys(conditions) = {} THEN ObjectIds(table)
  ELSE {o \in ObjectIds(table) :
          \E key \in Keys(conditions) :
            \E r \in RowsOf(table, o) : RowMatches(r, key, conditions[key])}

\* the objectids the inner query selects: every objectid of the table for
\* empty conditions, else the objectids that have, for each condition, a
\* row i<n> with that key and predicate (the self-join on objectid)
QueryIds(table, conditions) ==
  IF Keys(conditions) = {} THEN ObjectIds(table)
  ELSE {o \in ObjectIds(table) :
          \A key \in Keys(conditions) :
            \E r \in RowsOf(table, o) : RowMatches(r, key, conditions[key])}

\* the limit argument: None, or a number
Limits == {NULL} \cup {PyInt(n) : n \in 0..MaxLimit}

\* LIMIT <n> on the inner query that keeps every row
Limit_Ignored(ids, limit) == {ids}

\* LIMIT <n> on the inner query, whose rows carry distinct objectids: the
\* selections of n of them, or of all if there are fewer; which ones is up
\* to sqlite
Limit(ids, limit) ==
  IF limit = NULL THEN {ids}
  ELSE {chosen \in SUBSET ids :
          Cardinality(chosen) = IF limit.int < Cardinality(ids)
                                THEN limit.int ELSE Cardinality(ids)}

\* the error _make_conditions raises while the query text is built
ConditionsError(conditions) ==
  IF \E key \in Keys(conditions) : CondError(conditions[key]) # ""
  THEN CondError(conditions[CHOOSE key \in Keys(conditions) :
                              CondError(conditions[key]) # ""])
  ELSE ""

\* the sets of objectids the inner query may select
Selections(table, conditions, limit) ==
  IF ConditionsError(conditions) # "" THEN {{}}
  ELSE Limit(QueryIds(table, conditions), limit)

\* SELECT * FROM metadata WHERE objectid IN (<ids>) ORDER BY objectid
query_all(table, chosen) ==
  ResultBuilder(OrderByObjectid(table,
    {r \in BagToSet(table) : r.objectid \in chosen}))

\* the error of the call, "" if none: the conditions are compiled before
\* the query is executed, the results are built as they are read
QueryError(conditions, results) ==
  IF ConditionsError(conditions) # "" THEN ConditionsError(conditions)
  ELSE ResultBuilderError(results)

(***************************************************************************)
(* Directory trees: the filesystems the caller's directories are in.       *)
(* A path is the sequence of its components; a filesystem maps the real    *)
(* path of each of its entries to a node: a directory, a file with its     *)
(* content, or a symbolic link with the real path of its target.           *)
(***************************************************************************)
\* at most this many add_directory calls are made on one filesystem
MaxRuns == 2

Node(kind, content, target) == [kind |-> kind, content |-> content, target |-> target]
Dir == Node("dir", "", << >>)
File(content) == Node("file", content, << >>)
Link(target) == Node("link", "", target)

\* the caller's temporary directory, the directories added, and a
\* directory outside of them
T == <<"t">>
R == <<"t", "r">>
U == <<"t", "u">>
O == <<"t", "o">>

\* plain: files and a subdirectory, and a second tree u with the same
\* entries; inlinks: links to a file and to a directory of the tree
\* (test_internal_symlink), and a second tree u alike; outfile, outdir: a link to a file, to a
\* directory outside the tree (test_external_symlink); toroot: a link to
\* the directory added (test_symlink_recursive); toabove: a link to its
\* parent; toinner: a link to a directory of the tree the link is in;
\* twice: two links to one outside directory
FsNames == {"plain", "inlinks", "outfile", "outdir", "toroot", "toabove",
            "toinner", "twice"}

Around == (T :> Dir) @@ (R :> Dir) @@ (O :> Dir) @@ ((O \o <<"f">>) :> File("O"))

Filesystem(name) ==
  CASE name = "plain" ->
         Around @@ ((R \o <<"a">>) :> File("A")) @@ ((R \o <<"b">>) :> File("B"))
                @@ ((R \o <<"d">>) :> Dir) @@ ((R \o <<"d", "c">>) :> File("A"))
                @@ (U :> Dir)
                @@ ((U \o <<"a">>) :> File("A")) @@ ((U \o <<"b">>) :> File("B"))
                @@ ((U \o <<"d">>) :> Dir) @@ ((U \o <<"d", "c">>) :> File("A"))
    [] name = "inlinks" ->
         Around @@ ((R \o <<"a">>) :> File("A")) @@ ((R \o <<"d">>) :> Dir)
                @@ ((R \o <<"d", "l">>) :> Link(R \o <<"a">>))
                @@ ((R \o <<"k">>) :> Link(R \o <<"d">>))
                @@ (U :> Dir)
                @@ ((U \o <<"a">>) :> File("A")) @@ ((U \o <<"d">>) :> Dir)
                @@ ((U \o <<"d", "l">>) :> Link(U \o <<"a">>))
                @@ ((U \o <<"k">>) :> Link(U \o <<"d">>))
    [] name = "outfile" ->
         Around @@ ((R \o <<"a">>) :> File("A")) @@ ((R \o <<"l">>) :> Link(O \o <<"f">>))
    [] name = "outdir" ->
         Around @@ ((R \o <<"x">>) :> Link(O))
    [] name = "toroot" ->
         Around @@ ((R \o <<"a">>) :> File("A")) @@ ((R \o <<"l">>) :> Link(R))
    [] name = "toabove" ->
         Around @@ ((R \o <<"l">>) :> Link(T))
    [] name = "toinner" ->
         Around @@ ((R \o <<"d">>) :> Dir) @@ ((R \o <<"d", "e">>) :> Dir)
                @@ ((R \o <<"d", "e", "l">>) :> Link(R \o <<"d">>))
    [] name = "twice" ->
         Around @@ ((R \o <<"l1">>) :> Link(O)) @@ ((R \o <<"l2">>) :> Link(O))

\* the directories of a filesystem that the caller adds
Roots(name) == IF name \in {"plain", "inlinks"} THEN {R, U} ELSE {R}

dirname(p) == SubSeq(p, 1, Len(p) - 1)
basename(p) == p[Len(p)]

\* os.path.realpath: the links on the way are replaced by their targets
\* (the targets of the filesystems above are real paths); q is the real
\* path of the directory with the last name added, bound by \in so that it
\* is computed once
RECURSIVE realpath(_, _)
realpath(fs, p) ==
  IF p = << >> THEN << >>
  ELSE CHOOSE r \in
         {IF q \in DOMAIN fs /\ fs[q].kind = "link" THEN fs[q].target ELSE q :
            q \in {realpath(fs, dirname(p)) \o <<basename(p)>>}} : TRUE

\* where the entry named by p is, its last component not followed
lpath(fs, p) == realpath(fs, dirname(p)) \o <<basename(p)>>

islink(fs, p) == lpath(fs, p) \in DOMAIN fs /\ fs[lpath(fs, p)].kind = "link"
isdir(fs, p) == realpath(fs, p) \in DOMAIN fs /\ fs[realpath(fs, p)].kind = "dir"

\* os.listdir, as a set of names
listdir(fs, p) ==
  {basename(q) : q \in {x \in DOMAIN fs : x # << >> /\ dirname(x) = realpath(fs, p)}}

\* the orders in which os.listdir may give the names
Orders(names) ==
  {order \in [1..Cardinality(names) -> names] :
     \A i, j \in 1..Cardinality(names) : i # j => order[i] # order[j]}

\* sorted(names) that leaves the list as os.listdir gave it
sorted_Unsorted(order) == order

\* sorted(os.listdir(path))
sorted(order) == SortedStrs({order[i] : i \in 1..Len(order)})

\* os.path.relpath(target, start) on real paths
CommonLen(a, b) ==
  CHOOSE n \in 0..Len(a) :
    /\ n <= Len(b) /\ SubSeq(a, 1, n) = SubSeq(b, 1, n)
    /\ \A m \in (n + 1)..Len(a) : m > Len(b) \/ SubSeq(a, 1, m) # SubSeq(b, 1, m)
relpath(target, start) ==
  LET n == CommonLen(target, start)
      rel == [i \in 1..(Len(start) - n) |-> ".."] \o SubSeq(target, n + 1, Len(target))
  IN  IF rel = << >> THEN <<".">> ELSE rel

\* relativize_link: the relative path from the link to its target if the
\* target is below root (root + os.path.sep is a prefix of it), else None
None == << >>

\* relativize_link that takes the root itself for a target below the root
relativize_link_RootInside(fs, link, root) ==
  CHOOSE r \in
    {IF Len(target) >= Len(prefix) /\ SubSeq(target, 1, Len(prefix)) = prefix
     THEN relpath(target, start)
     ELSE None :
       target \in {realpath(fs, fs[lpath(fs, link)].target)},
       prefix \in {realpath(fs, root)},
       start \in {realpath(fs, dirname(link))}} : TRUE

\* target, prefix (the real root) and start (the real directory of the
\* link) are bound by \in so that each is computed once
relativize_link(fs, link, root) ==
  CHOOSE r \in
    {IF Len(target) > Len(prefix) /\ SubSeq(target, 1, Len(prefix)) = prefix
     THEN relpath(target, start)
     ELSE None :
       target \in {realpath(fs, fs[lpath(fs, link)].target)},
       prefix \in {realpath(fs, root)},
       start \in {realpath(fs, dirname(link))}} : TRUE

\* a call of hash_directory or copy_directory in progress: the path it was
\* given, the place of the copy below the stored directory, the names
\* still to come, the lines fed to sha1 so far
Frame(p, at) == [path |-> p, at |-> at, entered |-> FALSE, todo |-> << >>, lines |-> << >>]

\* no add_directory call is in flight; entries: the real paths of the
\* directories hash_directory went into, in the order it did
NoWalk == [phase |-> "idle", root |-> << >>, stack |-> << >>, visited |-> {},
           entries |-> << >>, warned |-> {}, digest |-> << >>, made |-> {}]

(***************************************************************************)
(* Conditions given as text: file_archive.parser (the query line of the    *)
(* viewer) and main.parse_query_metadata (the arguments of the query       *)
(* command). In this part a text is the sequence of its characters.        *)
(***************************************************************************)
\* at most this many conditions in one query
MaxConds == 2

\* the tokens of the lexer: Key, Number (type 'int'), String (type 'str')
KeyTok(text) == [cls |-> "Key", text |-> text, type |-> "", value |-> NULL]
NumberTok(n) == [cls |-> "Number", text |-> << >>, type |-> "int", value |-> PyInt(n)]
StringTok(t) == [cls |-> "String", text |-> << >>, type |-> "str", value |-> PyStr(t)]

\* the keys conditions are given on
CondKeys == {<<"k">>, <<"j">>}
Operands == {KeyTok(<<"k">>), KeyTok(<<"j">>), NumberTok(2), StringTok(<<"s">>)}
OperatorTexts == {"=", "<", ">"}

\* one condition as the lexer gives it: operand, operator, operand
CondTexts == Operands \X OperatorTexts \X Operands

\* a condition dict {'type': t, <cond>: value}
CondFields == {"type", "equal", "gt", "lt"}
NoCond == [f \in CondFields |-> Absent]
TextCond(t, cond, v) == [NoCond EXCEPT !["type"] = PyStr(t), ![cond] = v]

\* what parsing one condition gives: an error, or the key and its condition
Refuse(error) == [error |-> error, key |-> << >>, cond |-> NoCond]
Expr(key, cond) == [error |-> "", key |-> key, cond |-> cond]

\* Operator.led: the key may be on either side; the comparison is turned
\* round when the key is on the right
led(left, op, right) ==
  LET inverted == left.cls # "Key" /\ right.cls = "Key"
      l == IF inverted THEN right ELSE left
      r == IF inverted THEN left ELSE right
      cond == IF op = "=" THEN "equal"
              ELSE IF op = "<" THEN (IF inverted THEN "gt" ELSE "lt")
              ELSE (IF inverted THEN "lt" ELSE "gt")
  IN  IF ~inverted /\ left.cls # "Key" THEN Refuse("ParserError")
      ELSE IF ~inverted /\ right.cls = "Key" THEN Refuse("ParserError")
      ELSE Expr(l.text, TextCond(r.type, cond, r.value))

\* _update_conditions without the test for a condition given twice
update_error_TypeOnly(conditions, expr) ==
  LET prec == conditions[expr.key]
  IN  IF prec = Absent THEN ""
      ELSE IF prec["type"] # expr.cond["type"] THEN "ParserError"
      ELSE ""

\* the error _update_conditions raises, "" if none
update_error(conditions, expr) ==
  LET prec == conditions[expr.key]
  IN  IF prec = Absent THEN ""
      ELSE IF prec["type"] # expr.cond["type"] THEN "ParserError"
      ELSE IF \E k \in Keys(expr.cond) : k # "type" /\ prec[k] # Absent
           THEN "ParserError"
      ELSE ""

\* prec.update(cond), or conditions[key] = cond
update_conditions(conditions, expr) ==
  [conditions EXCEPT ![expr.key] =
     IF @ = Absent THEN expr.cond
     ELSE [k \in CondFields |-> IF expr.cond[k] # Absent THEN expr.cond[k] ELSE @[k]]]

\* the arguments of the query command: key=value, key=str:value,
\* key=int:N, key=int:>N, key=int:<N, an unknown type, and a bare word
ArgTexts ==
  {<<"k", "=", "s">>,
   <<"k", "=", "s", "t", "r", ":", "s">>,
   <<"k", "=", "i", "n", "t", ":", "2">>,
   <<"k", "=", "i", "n", "t", ":", ">", "2">>,
   <<"k", "=", "i", "n", "t", ":", "<", "2">>,
   <<"j", "=", "i", "n", "t", ":", "<", "1", "2">>,
   <<"k", "=", "b", "u", "r", "g", "e", "r", ":", "s">>,
   <<"k">>}

\* s.find(ch) + 1: the place of the first ch in s, 0 if there is none
Find(s, ch) ==
  IF \A i \in 1..Len(s) : s[i] # ch THEN 0
  ELSE CHOOSE i \in 1..Len(s) : s[i] = ch /\ \A j \in 1..(i - 1) : s[j] # ch

\* int(v) for a text of decimal digits
RECURSIVE int(_)
int(v) == IF v = << >> THEN 0 ELSE 10 * int(SubSeq(v, 1, Len(v) - 1)) + (Ord(v[Len(v)]) - 2)

\* parse_query_metadata, one argument: the split at '=' and at ':' and the
\* comparison a leading '>' or '<' of an int asks for
QueryArg(a) ==
  LET eq == Find(a, "=")
      k == SubSeq(a, 1, eq - 1)
      v == SubSeq(a, eq + 1, Len(a))
      colon == Find(v, ":")
      t == SubSeq(v, 1, colon - 1)
      w == SubSeq(v, colon + 1, Len(v))
  IN  IF eq = 0 THEN Refuse("exit 1")
      ELSE IF colon = 0 THEN Expr(k, TextCond("str", "equal", PyStr(v)))
      ELSE IF t = <<"i", "n", "t">>
           THEN IF w[1] = ">" THEN Expr(k, TextCond("int", "gt", PyInt(int(Tail(w)))))
                ELSE IF w[1] = "<" THEN Expr(k, TextCond("int", "lt", PyInt(int(Tail(w)))))
                ELSE Expr(k, TextCond("int", "equal", PyInt(int(w))))
      ELSE IF t = <<"s", "t", "r">> THEN Expr(k, TextCond("str", "equal", PyStr(w)))
      ELSE Refuse("exit 1")

\* parse_query_metadata, 'if k in metadata': the message and sys.exit(1),
\* "" if the argument is taken
QueryArgError(metadata, expr) ==
  LET prec == metadata[expr.key]
      req == CHOOSE k \in Keys(expr.cond) : k # "type"
  IN  IF prec = Absent THEN ""
      ELSE IF expr.cond["type"] # prec["type"] THEN "exit 1"
      ELSE IF prec[req] # Absent THEN "exit 1"
      ELSE ""

\* metadata[k][req] = v, or metadata[k] = {'type': t, req: v}
QueryArgUpdate(metadata, expr) ==
  LET req == CHOOSE k \in Keys(expr.cond) : k # "type"
  IN  [metadata EXCEPT ![expr.key] =
         IF @ = Absent THEN expr.cond ELSE [@ EXCEPT ![req] = expr.cond[req]]]

\* the texts of at most n conditions drawn from S
Texts(S, n) == UNION {[1..m -> S] : m \in 0..n}

\* no parse in flight; by: the function that parses; at: the conditions of
\* the input taken so far; queried: the caller passed the conditions to
\* FileStore.query
NoParse == [by |-> "", input |-> << >>, at |-> 0,
            conditions |-> [k \in CondKeys |-> Absent],
            outcome |-> "", error |-> "", queried |-> FALSE]

(***************************************************************************)
(* BufferedReader(fp): the chunks of a stream                              *)
(***************************************************************************)
\* CHUNKSIZE, scaled down as test_buffered_reader does
ChunkSize == 2
\* the streams hold at most this many bytes
MaxContent == 4

Bytes == {"a", "b"}
Contents == UNION {[1..n -> Bytes] : n \in 0..MaxContent}

\* the sizes fp.read(CHUNKSIZE) may return with rest bytes left: nothing at
\* the end of the stream; all there is, up to CHUNKSIZE, from a regular
\* file or a BytesIO; any number of bytes from 1 up to that from a stream
\* that gives what it has (a pipe, a socket, a terminal)
ReadSizes(short, rest) ==
  LET most == IF rest < ChunkSize THEN rest ELSE ChunkSize
  IN  IF rest = 0 THEN {0} ELSE IF short THEN 1..most ELSE {most}

\* no generator in flight; short: the kind of stream; data: its content;
\* pos: the bytes read so far; chunk: the local of the generator; chunks:
\* what it has yielded
NoReader == [pc |-> "none", short |-> FALSE, data |-> << >>, pos |-> 0,
             chunk |-> << >>, chunks |-> << >>]

(***************************************************************************)
(* State                                                                   *)
(***************************************************************************)
VARIABLES
  db,      \* the committed rows of <store>/database
  conn,    \* the rows as the open connection sees them (db plus the
           \* changes of the transaction in progress)
  shards,  \* the shard directories present under <store>/objects
  blobs,   \* per digest, what is at objects/<shard>/<leaf>:
           \* "absent", "partial" (copy in progress or interrupted), "present"
  pc,      \* "closed" while no FileStore object exists, "idle" between
           \* calls, the step a call in flight is at, "done" when a call has
           \* just ended and the caller holds its outcome
  call,    \* the locals of the call in flight
  pre,     \* db, blobs, shards and path as they were when the call began
  last,    \* at "done": what the call was and how it ended
  path,    \* what is at the path of the store: its kind, whether its parent
           \* directory exists, and the entries it holds if it is a directory
  fsys,    \* the filesystem the caller's directory trees are in
  walk,    \* the hash_directory or copy_directory call in flight
  outs,    \* the outcomes of the calls on directory trees that are over
  parse,   \* the parse of a query text in flight, and how it ended
  reader   \* the BufferedReader generator in flight, and the stream it reads

storeVars == <<db, conn, shards, blobs, pc, call, pre, last, path>>
treeVars == <<fsys, walk, outs>>
textVars == <<parse, reader>>
vars == <<storeVars, treeVars, textVars>>

NoId == << >>
NoCall == [op |-> "", src |-> "", metadata |-> EmptyDict, filehash |-> "",
           objectid |-> NoId, todo |-> {}, error |-> "", copied |-> FALSE,
           added |-> "", partial |-> FALSE]

\* outcome: "returned", "raised" or "crashed"; result: the (objectid,
\* metadata) pairs handed back; copied: whether the call wrote a blob;
\* executed: whether the query reached cur.execute; added: what
\* MetadataStore.add returned ("True" or "False"), "" if it did not return;
\* partial: whether MetadataStore.add raised after an INSERT of its loop ran
NoLast == [op |-> "", outcome |-> "", error |-> "", src |-> "",
           metadata |-> EmptyDict, filehash |-> "", objectid |-> NoId,
           result |-> << >>, copied |-> FALSE, conditions |-> EmptyDict,
           limit |-> NULL, executed |-> FALSE, added |-> "", partial |-> FALSE]

Snapshot == [db |-> db, blobs |-> blobs, shards |-> shards, path |-> path]

\* what the caller may find at the path before any store is created there:
\* nothing (the parent directory existing or not), a file, an empty
\* directory, a directory that holds a file
PathState(kind, parent, entries) == [kind |-> kind, parent |-> parent, entries |-> entries]
Paths ==
  {PathState("absent", TRUE, {}), PathState("absent", FALSE, {}),
   PathState("file", TRUE, {}), PathState("dir", TRUE, {}),
   PathState("dir", TRUE, {"somefile"})}

\* no FileStore object exists yet (pc = "closed"), nothing is stored
Init ==
  /\ db = EmptyBag
  /\ conn = EmptyBag
  /\ shards = {}
  /\ blobs = [h \in Digests |-> "absent"]
  /\ pc = "closed"
  /\ call = NoCall
  /\ path \in Paths
  /\ pre = [db |-> EmptyBag, blobs |-> [h \in Digests |-> "absent"], shards |-> {},
            path |-> path]
  /\ last = NoLast
  /\ fsys = "plain"
  /\ walk = NoWalk
  /\ outs = << >>
  /\ parse = NoParse
  /\ reader = NoReader

\* the call in flight ends by raising
Raise(error) ==
  /\ pc' = "done"
  /\ call' = NoCall
  /\ last' = [NoLast EXCEPT !.op = call.op, !.outcome = "raised", !.error = error,
                            !.src = call.src, !.metadata = call.metadata,
                            !.filehash = call.filehash,
                            !.objectid = call.objectid, !.copied = call.copied,
                            !.partial = call.partial]

\* the caller is through with the outcome of the call and may call again
CallerContinues ==
  /\ pc = "done"
  /\ pc' = IF last.op \in {"create_store", "open"} THEN "closed" ELSE "idle"
  /\ last' = NoLast
  /\ pre' = Snapshot
  /\ UNCHANGED <<db, conn, shards, blobs, call>>
  /\ UNCHANGED <<path, treeVars, textVars>>

(***************************************************************************)
(* FileStore.create_store(path), FileStore(path)                           *)
(***************************************************************************)
\* the exception that leaves `except OSError as e: raise CreationError(...
\* e.message)`: CreationError where the exception has a message attribute
\* (Python 2), AttributeError where it has none (Python 3)
MkdirErrors == {"CreationError", "AttributeError"}

\* the store as create_store leaves it: objects/ and the database file
CreatedStore == PathState("dir", TRUE, {"objects", "database"})

\* create_store: CreationError if the path exists and is not an empty
\* directory; os.mkdir(path) if it does not exist, which fails if its
\* parent does not; os.mkdir(objects); MetadataStore.create_db
CreateStore(error) ==
  /\ pc = "closed"
  /\ pre' = Snapshot
  /\ pc' = "done"
  /\ IF path.kind # "absent" /\ (path.kind # "dir" \/ path.entries # {})
     THEN /\ error = "CreationError"
          /\ last' = [NoLast EXCEPT !.op = "create_store", !.outcome = "raised",
                                    !.error = error]
          /\ path' = path
     ELSE IF path.kind = "absent" /\ ~path.parent
     THEN /\ last' = [NoLast EXCEPT !.op = "create_store", !.outcome = "raised",
                                    !.error = error]
          /\ path' = path
     ELSE /\ error = "CreationError"
          /\ last' = [NoLast EXCEPT !.op = "create_store", !.outcome = "returned"]
          /\ path' = CreatedStore
  /\ UNCHANGED <<db, conn, shards, blobs, call>>
  /\ UNCHANGED <<treeVars, textVars>>

\* FileStore.__init__: objects must be a directory and database a file
OpenError(at) ==
  IF at.kind # "dir" \/ "objects" \notin at.entries THEN "InvalidStore"
  ELSE IF "database" \notin at.entries THEN "InvalidStore"
  ELSE ""

\* FileStore(path): the object exists if __init__ raises nothing
Open ==
  /\ pc = "closed"
  /\ IF OpenError(path) = ""
     THEN pc' = "idle" /\ UNCHANGED <<pre, last>>
     ELSE /\ pc' = "done"
          /\ pre' = Snapshot
          /\ last' = [NoLast EXCEPT !.op = "open", !.outcome = "raised",
                                    !.error = OpenError(path)]
  /\ UNCHANGED <<db, conn, shards, blobs, call, path>>
  /\ UNCHANGED <<treeVars, textVars>>

(***************************************************************************)
(* FileStore.add_file, FileStore.add_directory, FileStore.add              *)
(***************************************************************************)
AddOps == {"add_file", "add_directory", "add"}

\* add() calls add_directory() for a directory and add_file() otherwise
Dispatch(op, src) ==
  IF op = "add" THEN (IF IsDirectory(src) THEN "add_directory" ELSE "add_file")
  ELSE op

\* the error of opening and hashing the source, "" if none: add_file lets the
\* IOError through, add_directory turns IOError and OSError into ValueError
HashError(op, src, ioerror) ==
  LET f == Dispatch(op, src)
  IN  IF f = "add_file" /\ (IsDirectory(src) \/ ioerror) THEN "IOError"
      ELSE IF f = "add_directory" /\ (~IsDirectory(src) \/ ioerror) THEN "ValueError"
      ELSE ""

\* per source and dict of the universe: the dict with 'hash' set, the error
\* hash_metadata raises on it and, if none, the objectid and the record
\* the dicts tried with the directory: no attribute, one attribute, one value
\* normalize_metadata refuses and one whose tag has no column
DirMetadata ==
  {EmptyDict, [EmptyDict EXCEPT !["c"] = PyInt(12)],
   [EmptyDict EXCEPT !["c"] = PyFloat("1.5")],
   [EmptyDict EXCEPT !["c"] = Tagged(PyStr("float"), PyStr("12"), Absent)]}

AddInputs == ({"file1"} \X RawMetadata) \cup ({"dir3"} \X DirMetadata)
MetadataOf == [x \in AddInputs |-> WithHash(x[2], HexDigest(x[1]))]
MetadataErrorOf == [x \in AddInputs |-> HashMetadataError(MetadataOf[x])]
Accepted == {x \in AddInputs : MetadataErrorOf[x] = ""}
ObjectIdOf == [x \in Accepted |-> hash_metadata(MetadataOf[x])]
RecordOf == [x \in Accepted |-> normalize_metadata(MetadataOf[x])]

\* every objectid an accepted record of the universe can get
AllObjectIds == {ObjectIdOf[x] : x \in Accepted}

\* the model stops at MaxEntities entities: a call that could insert one
\* more is not made
WithinBound(x) ==
  \/ ObjectIdOf[x] \in ObjectIds(db)
  \/ Cardinality(ObjectIds(db)) < MaxEntities
  \/ \E k \in Keys(RecordOf[x]) : RecordOf[x][k].type \notin ColumnTypes

\* the source cannot be read (or is not of the kind the call takes): the call
\* raises before it looks at the metadata
AddHashFails(op, src, ioerror) ==
  /\ pc = "idle"
  /\ HashError(op, src, ioerror) # ""
  /\ pc' = "done"
  /\ pre' = Snapshot
  /\ last' = [NoLast EXCEPT !.op = Dispatch(op, src), !.outcome = "raised",
                            !.error = HashError(op, src, ioerror), !.src = src]
  /\ UNCHANGED <<db, conn, shards, blobs, call>>
  /\ UNCHANGED <<path, treeVars, textVars>>

\* hash_metadata raises: the call ends before it touches the store
AddRejected(op, src, metadata) ==
  /\ pc = "idle"
  /\ HashError(op, src, FALSE) = ""
  /\ <<src, metadata>> \in AddInputs
  /\ MetadataErrorOf[<<src, metadata>>] # ""
  /\ pc' = "done"
  /\ pre' = Snapshot
  /\ last' = [NoLast EXCEPT !.op = Dispatch(op, src), !.outcome = "raised",
                            !.error = MetadataErrorOf[<<src, metadata>>],
                            !.src = src, !.metadata = metadata,
                            !.filehash = HexDigest(src)]
  /\ UNCHANGED <<db, conn, shards, blobs, call>>
  /\ UNCHANGED <<path, treeVars, textVars>>

\* filehash and objectid are computed; next is _make_filename
AddBegin(op, src, metadata) ==
  /\ pc = "idle"
  /\ HashError(op, src, FALSE) = ""
  /\ <<src, metadata>> \in AddInputs
  /\ MetadataErrorOf[<<src, metadata>>] = ""
  /\ WithinBound(<<src, metadata>>)
  /\ call' = [NoCall EXCEPT !.op = Dispatch(op, src), !.src = src,
                            !.metadata = metadata, !.filehash = HexDigest(src),
                            !.objectid = ObjectIdOf[<<src, metadata>>]]
  /\ pre' = Snapshot
  /\ pc' = "mkdir"
  /\ UNCHANGED <<db, conn, shards, blobs, last>>
  /\ UNCHANGED <<path, treeVars, textVars>>

\* _make_filename(filehash, make_dir=True), then os.path.exists(storedfile)
MakeDir ==
  /\ pc = "mkdir"
  /\ shards' = shards \cup {Shard(call.filehash)}
  /\ pc' = IF blobs[call.filehash] = "absent" THEN "copy" ELSE "insert"
  /\ UNCHANGED <<db, conn, blobs, call, pre, last>>
  /\ UNCHANGED <<path, treeVars, textVars>>

\* os.mkdir of the shard directory fails
MakeDirFails ==
  /\ pc = "mkdir"
  /\ Shard(call.filehash) \notin shards
  /\ Raise("OSError")
  /\ UNCHANGED <<db, conn, shards, blobs, pre>>
  /\ UNCHANGED <<path, treeVars, textVars>>

\* copy_file: open(destination, 'wb'); copy_directory: os.mkdir(destination)
CopyOpen ==
  /\ pc = "copy"
  /\ blobs' = [blobs EXCEPT ![call.filehash] = "partial"]
  /\ call' = [call EXCEPT !.copied = TRUE]
  /\ pc' = "write"
  /\ UNCHANGED <<db, conn, shards, pre, last>>
  /\ UNCHANGED <<path, treeVars, textVars>>

\* the destination cannot be created: nothing is written, nothing to clean
CopyOpenFails ==
  /\ pc = "copy"
  /\ Raise("OSError")
  /\ UNCHANGED <<db, conn, shards, blobs, pre>>
  /\ UNCHANGED <<path, treeVars, textVars>>

\* the content is written to the end
CopyWrite ==
  /\ pc = "write"
  /\ blobs' = [blobs EXCEPT ![call.filehash] = "present"]
  /\ pc' = "insert"
  /\ UNCHANGED <<db, conn, shards, call, pre, last>>
  /\ UNCHANGED <<path, treeVars, textVars>>

\* a read or write fails: os.remove(destination) / shutil.rmtree(destination)
CopyWriteFails ==
  /\ pc = "write"
  /\ blobs' = [blobs EXCEPT ![call.filehash] = "absent"]
  /\ Raise("IOError")
  /\ UNCHANGED <<db, conn, shards, pre>>
  /\ UNCHANGED <<path, treeVars, textVars>>

(***************************************************************************)
(* MetadataStore.add, as add_file / add_directory call it                  *)
(***************************************************************************)
\* the normalized record MetadataStore.add inserts
CallRecord == RecordOf[<<call.src, call.metadata>>]

\* InsertSelect without the test for an existing entity
InsertSelect_NoCheck ==
  /\ pc = "insert"
  /\ pc' = "rows"
  /\ call' = [call EXCEPT !.todo = Keys(CallRecord)]
  /\ UNCHANGED <<db, conn, shards, blobs, pre, last>>
  /\ UNCHANGED <<path, treeVars, textVars>>

\* SELECT objectid ... LIMIT 1: an entity with this objectid exists, add
\* returns False; otherwise the rows are to be inserted
InsertSelect ==
  /\ pc = "insert"
  /\ IF RowsOf(conn, call.objectid) # {}
     THEN pc' = "return" /\ call' = [call EXCEPT !.added = "False"]
     ELSE pc' = "rows" /\ call' = [call EXCEPT !.todo = Keys(CallRecord)]
  /\ UNCHANGED <<db, conn, shards, blobs, pre, last>>
  /\ UNCHANGED <<path, treeVars, textVars>>

\* one INSERT of the loop over metadata.items()
InsertRow(k) ==
  /\ pc = "rows"
  /\ call.todo # {} /\ k = FirstKey(call.todo)
  /\ CallRecord[k].type \in ColumnTypes
  /\ conn' = conn (+) SetToBag({Row(call.objectid, k, CallRecord[k].type,
                                    CallRecord[k].value)})
  /\ call' = [call EXCEPT !.todo = call.todo \ {k}]
  /\ UNCHANGED <<db, shards, blobs, pc, pre, last>>
  /\ UNCHANGED <<path, treeVars, textVars>>

\* the INSERT names a column mvalue_<t> the table does not have:
\* sqlite3.OperationalError, self.conn.rollback()
InsertRowNoColumn(k) ==
  /\ pc = "rows"
  /\ call.todo # {} /\ k = FirstKey(call.todo)
  /\ CallRecord[k].type \notin ColumnTypes
  /\ conn' = db
  /\ call' = [call EXCEPT !.error = "OperationalError", !.todo = {},
                          !.partial = (call.todo # Keys(CallRecord))]
  /\ pc' = "undo"
  /\ UNCHANGED <<db, shards, blobs, pre, last>>
  /\ UNCHANGED <<path, treeVars, textVars>>

\* InsertFails without self.conn.rollback()
InsertFails_NoRollback ==
  /\ pc \in {"insert", "rows"}
  /\ conn' = conn
  /\ call' = [call EXCEPT !.error = "sqlite3.Error", !.todo = {},
                          !.partial = (pc = "rows" /\ call.todo # Keys(CallRecord))]
  /\ pc' = "undo"
  /\ UNCHANGED <<db, shards, blobs, pre, last>>
  /\ UNCHANGED <<path, treeVars, textVars>>

\* a statement or the commit fails in sqlite: self.conn.rollback()
InsertFails ==
  /\ pc \in {"insert", "rows"}
  /\ conn' = db
  /\ call' = [call EXCEPT !.error = "sqlite3.Error", !.todo = {},
                          !.partial = (pc = "rows" /\ call.todo # Keys(CallRecord))]
  /\ pc' = "undo"
  /\ UNCHANGED <<db, shards, blobs, pre, last>>
  /\ UNCHANGED <<path, treeVars, textVars>>

\* self.conn.commit(); return True
InsertCommit ==
  /\ pc = "rows"
  /\ call.todo = {}
  /\ db' = conn
  /\ pc' = "return"
  /\ call' = [call EXCEPT !.added = "True"]
  /\ UNCHANGED <<conn, shards, blobs, pre, last>>
  /\ UNCHANGED <<path, treeVars, textVars>>

\* except BaseException: os.remove(storedfile) / shutil.rmtree(storeddir); raise
AddUndo ==
  /\ pc = "undo"
  /\ blobs' = [blobs EXCEPT ![call.filehash] = "absent"]
  /\ Raise(call.error)
  /\ UNCHANGED <<db, conn, shards, pre>>
  /\ UNCHANGED <<path, treeVars, textVars>>

\* return Entry(self, objectid, metadata): the entry holds the dict as the
\* caller gave it, plus 'hash'
AddReturn ==
  /\ pc = "return"
  /\ pc' = "done"
  /\ call' = NoCall
  /\ last' = [NoLast EXCEPT !.op = call.op, !.outcome = "returned",
                            !.src = call.src, !.metadata = call.metadata,
                            !.filehash = call.filehash,
                            !.objectid = call.objectid,
                            !.result = <<[objectid |-> call.objectid,
                                          metadata |-> MetadataOf[<<call.src, call.metadata>>]]>>,
                            !.copied = call.copied, !.added = call.added]
  /\ UNCHANGED <<db, conn, shards, blobs, pre>>
  /\ UNCHANGED <<path, treeVars, textVars>>

(***************************************************************************)
(* FileStore.get                                                           *)
(***************************************************************************)
Get(objectid) ==
  /\ pc = "idle"
  /\ pc' = "done"
  /\ pre' = Snapshot
  /\ last' = IF MetadataGetError(conn, objectid) # ""
             THEN [NoLast EXCEPT !.op = "get", !.outcome = "raised",
                                 !.error = MetadataGetError(conn, objectid),
                                 !.objectid = objectid]
             ELSE [NoLast EXCEPT !.op = "get", !.outcome = "returned",
                                 !.objectid = objectid,
                                 !.result = <<[objectid |-> objectid,
                                               metadata |-> MetadataGet(conn, objectid)]>>]
  /\ UNCHANGED <<db, conn, shards, blobs, call>>
  /\ UNCHANGED <<path, treeVars, textVars>>

(***************************************************************************)
(* FileStore.query(conditions, limit), the caller reading the iterator to  *)
(* its end, and FileStore.query_one(conditions)                            *)
(***************************************************************************)
\* the conditions that the callers combine with a limit
LimitedConditions ==
  {EmptyDict, [EmptyDict EXCEPT !["c"] = PyInt(12)],
   [EmptyDict EXCEPT !["c"] = Cond(PyStr("int"), Absent, Absent, Absent, Absent)]}

\* the conditions that the callers pass to query_one
QueryOneConditions ==
  LimitedConditions \cup {[EmptyDict EXCEPT !["c"] = c] : c \in CondsRefused}

Query(conditions, limit) ==
  /\ pc = "idle"
  /\ limit # NULL => conditions \in LimitedConditions
  /\ pc' = "done"
  /\ pre' = Snapshot
  /\ \E chosen \in Selections(conn, conditions, limit) :
       LET results == query_all(conn, chosen)
           error   == QueryError(conditions, results)
           asked   == [NoLast EXCEPT !.op = "query", !.conditions = conditions,
                                     !.limit = limit,
                                     !.executed = ConditionsError(conditions) = ""]
       IN  last' = IF error # ""
                   THEN [asked EXCEPT !.outcome = "raised", !.error = error]
                   ELSE [asked EXCEPT !.outcome = "returned", !.result = results]
  /\ UNCHANGED <<db, conn, shards, blobs, call>>
  /\ UNCHANGED <<path, treeVars, textVars>>

\* rows = self.query_all(conditions, limit=1); next(rows), or (None, None)
\* and then None when there is no row: the result is empty
QueryOne(conditions) ==
  /\ pc = "idle"
  /\ pc' = "done"
  /\ pre' = Snapshot
  /\ \E chosen \in Selections(conn, conditions, PyInt(1)) :
       LET results == query_all(conn, chosen)
           error   == QueryError(conditions, results)
           asked   == [NoLast EXCEPT !.op = "query_one", !.conditions = conditions,
                                     !.limit = PyInt(1),
                                     !.executed = ConditionsError(conditions) = ""]
       IN  last' = IF error # ""
                   THEN [asked EXCEPT !.outcome = "raised", !.error = error]
                   ELSE [asked EXCEPT !.outcome = "returned", !.result = results]
  /\ UNCHANGED <<db, conn, shards, blobs, call>>
  /\ UNCHANGED <<path, treeVars, textVars>>

(***************************************************************************)
(* FileStore.remove(objectid)                                              *)
(***************************************************************************)
\* entry = self.get(objectid) raises KeyError
RemoveRejected(objectid) ==
  /\ pc = "idle"
  /\ MetadataGetError(conn, objectid) # ""
  /\ pc' = "done"
  /\ pre' = Snapshot
  /\ last' = [NoLast EXCEPT !.op = "remove", !.outcome = "raised",
                            !.error = MetadataGetError(conn, objectid),
                            !.objectid = objectid]
  /\ UNCHANGED <<db, conn, shards, blobs, call>>
  /\ UNCHANGED <<path, treeVars, textVars>>

\* entry = self.get(objectid): entry['hash'] and entry.filename are fixed here
RemoveBegin(objectid) ==
  /\ pc = "idle"
  /\ MetadataGetError(conn, objectid) = ""
  /\ call' = [NoCall EXCEPT !.op = "remove", !.objectid = objectid,
                            !.filehash = MetadataGet(conn, objectid)["hash"].str]
  /\ pre' = Snapshot
  /\ pc' = "delete"
  /\ UNCHANGED <<db, conn, shards, blobs, last>>
  /\ UNCHANGED <<path, treeVars, textVars>>

\* MetadataStore.remove: DELETE, KeyError if no row was deleted, commit
Delete ==
  /\ pc = "delete"
  /\ IF RowsOf(conn, call.objectid) = {}
     THEN /\ Raise("KeyError")
          /\ UNCHANGED <<db, conn>>
     ELSE /\ conn' = DeleteRows(conn, call.objectid)
          /\ db' = conn'
          /\ pc' = "gc"
          /\ UNCHANGED <<call, last>>
  /\ UNCHANGED <<shards, blobs, pre>>
  /\ UNCHANGED <<path, treeVars, textVars>>

\* the DELETE or the commit fails in sqlite: self.conn.rollback()
DeleteFails ==
  /\ pc = "delete"
  /\ conn' = db
  /\ Raise("sqlite3.Error")
  /\ UNCHANGED <<db, shards, blobs, pre>>
  /\ UNCHANGED <<path, treeVars, textVars>>

RemoveReturn ==
  /\ pc' = "done"
  /\ call' = NoCall
  /\ last' = [NoLast EXCEPT !.op = "remove", !.outcome = "returned",
                            !.filehash = call.filehash,
                            !.objectid = call.objectid]

\* Gc that leaves the blob of the removed entity in the object store
Gc_KeepsBlob ==
  /\ pc = "gc"
  /\ RemoveReturn /\ UNCHANGED blobs
  /\ UNCHANGED <<db, conn, shards, pre>>
  /\ UNCHANGED <<path, treeVars, textVars>>

\* if not has_filehash(entry['hash']): shutil.rmtree / os.remove of the blob
Gc ==
  /\ pc = "gc"
  /\ IF has_filehash(conn, call.filehash)
     THEN RemoveReturn /\ UNCHANGED blobs
     ELSE IF blobs[call.filehash] = "absent"
          THEN Raise("OSError") /\ UNCHANGED blobs
          ELSE RemoveReturn /\ blobs' = [blobs EXCEPT ![call.filehash] = "absent"]
  /\ UNCHANGED <<db, conn, shards, pre>>
  /\ UNCHANGED <<path, treeVars, textVars>>

\* the blob cannot be deleted (os.remove / shutil.rmtree raises)
GcFails ==
  /\ pc = "gc"
  /\ ~has_filehash(conn, call.filehash)
  /\ blobs[call.filehash] # "absent"
  /\ Raise("OSError")
  /\ UNCHANGED <<db, conn, shards, blobs, pre>>
  /\ UNCHANGED <<path, treeVars, textVars>>

(***************************************************************************)
(* The process dies during a call; the store is opened again later.        *)
(* sqlite discards the transaction in progress, the files stay as they are *)
(***************************************************************************)
Crash ==
  /\ pc \notin {"closed", "idle", "done"}
  /\ conn' = db
  /\ pc' = "done"
  /\ call' = NoCall
  /\ last' = [NoLast EXCEPT !.op = call.op, !.outcome = "crashed"]
  /\ UNCHANGED <<db, shards, blobs, pre>>
  /\ UNCHANGED <<path, treeVars, textVars>>

Next ==
  \/ \E error \in MkdirErrors : CreateStore(error)
  \/ Open
  \/ CallerContinues
  \/ \E op \in AddOps, src \in Sources, ioerror \in BOOLEAN : AddHashFails(op, src, ioerror)
  \/ \E op \in AddOps, src \in Sources, m \in RawMetadata : AddRejected(op, src, m)
  \/ \E op \in AddOps, src \in Sources, m \in RawMetadata : AddBegin(op, src, m)
  \/ MakeDir
  \/ MakeDirFails
  \/ CopyOpen
  \/ CopyOpenFails
  \/ CopyWrite
  \/ CopyWriteFails
  \/ InsertSelect
  \/ \E k \in MetaKeys : InsertRow(k)
  \/ \E k \in MetaKeys : InsertRowNoColumn(k)
  \/ InsertFails
  \/ InsertCommit
  \/ AddUndo
  \/ AddReturn
  \/ \E objectid \in AllObjectIds : Get(objectid)
  \/ \E conditions \in QueryConditions, limit \in Limits : Query(conditions, limit)
  \/ \E conditions \in QueryOneConditions : QueryOne(conditions)
  \/ \E objectid \in AllObjectIds : RemoveRejected(objectid)
  \/ \E objectid \in AllObjectIds : RemoveBegin(objectid)
  \/ Delete
  \/ DeleteFails
  \/ Gc
  \/ GcFails
  \/ Crash

Spec == Init /\ [][Next]_vars

\* the calls of add_file, add_directory, add and remove on a created store
\* when nothing fails: no error of the file system or of sqlite, no crash,
\* no call that raises (a call that would raise does not come to an end
\* here)
CleanInit ==
  /\ db = EmptyBag
  /\ conn = EmptyBag
  /\ shards = {}
  /\ blobs = [h \in Digests |-> "absent"]
  /\ pc = "idle"
  /\ call = NoCall
  /\ path = CreatedStore
  /\ pre = [db |-> EmptyBag, blobs |-> [h \in Digests |-> "absent"], shards |-> {},
            path |-> CreatedStore]
  /\ last = NoLast
  /\ fsys = "plain"
  /\ walk = NoWalk
  /\ outs = << >>
  /\ parse = NoParse
  /\ reader = NoReader

CleanNext ==
  \/ CallerContinues
  \/ \E op \in AddOps, src \in Sources, m \in RawMetadata : AddBegin(op, src, m)
  \/ MakeDir
  \/ CopyOpen
  \/ CopyWrite
  \/ InsertSelect
  \/ \E k \in MetaKeys : InsertRow(k)
  \/ InsertCommit
  \/ AddReturn
  \/ \E objectid \in AllObjectIds : RemoveBegin(objectid)
  \/ Delete
  \/ Gc

CleanSpec == CleanInit /\ [][CleanNext]_vars

(***************************************************************************)
(* FileStore.add_directory on the directory trees: hash_directory, then    *)
(* copy_directory unless the stored directory exists, then the entity      *)
(***************************************************************************)
FS == Filesystem(fsys)
Top == walk.stack[Len(walk.stack)]
\* pf = os.path.join(path, f) for the next name f
Pf == Top.path \o <<Head(Top.todo)>>

\* the link at p is kept as a link: its target is below the root
KeptAsLink(p) == islink(FS, p) /\ relativize_link(FS, p, walk.root) # None

\* what is fed to sha1 for an entry; a digest is modelled by what was fed
LinkLine(f, link) == <<"link", f, "sha1(">> \o link \o <<")">>
DirLine(f, digest) == <<"dir", f, "sha1(">> \o digest \o <<")">>
FileLine(f, content) == <<"file", f, "hash_file(", content, ")">>

\* how a call ended: the entry's 'hash' if it returned, the error if it
\* raised; the warnings issued; the directory stored under the digest
\* when the call was over, and whether this call made it
Out(root, outcome, error, digest, warned, made, copied) ==
  [root |-> root, outcome |-> outcome, error |-> error, digest |-> digest,
   warned |-> warned, made |-> made, copied |-> copied]

\* os.path.exists(storeddir): an earlier call stored this digest
Stored(digest) ==
  {i \in 1..Len(outs) : outs[i].outcome = "returned" /\ outs[i].digest = digest}

PopFrame == SubSeq(walk.stack, 1, Len(walk.stack) - 1)

AddDirectoryBegin(root) ==
  /\ walk.phase = "idle"
  /\ Len(outs) < MaxRuns
  /\ root \in Roots(fsys)
  /\ walk' = [NoWalk EXCEPT !.phase = "hash", !.root = root,
                            !.stack = <<Frame(root, << >>)>>]
  /\ UNCHANGED <<fsys, outs>>
  /\ UNCHANGED <<storeVars, textVars>>

\* hash_directory finds the real path in visited: ValueError, which
\* add_directory lets through; nothing was created
HashLoop ==
  /\ walk.phase = "hash"
  /\ ~Top.entered
  /\ realpath(FS, Top.path) \in walk.visited
  /\ outs' = Append(outs, Out(walk.root, "raised", "ValueError", << >>,
                              walk.warned, {}, FALSE))
  /\ walk' = NoWalk
  /\ UNCHANGED fsys
  /\ UNCHANGED <<storeVars, textVars>>

\* HashEnter without the test of visited
HashEnter_Unchecked ==
  /\ walk.phase = "hash"
  /\ ~Top.entered
  /\ \E order \in Orders(listdir(FS, Top.path)) :
       walk' = [walk EXCEPT !.visited = @ \cup {realpath(FS, Top.path)},
                           !.entries = Append(@, realpath(FS, Top.path)),
                           !.stack[Len(walk.stack)] =
                              [@ EXCEPT !.entered = TRUE, !.todo = sorted(order),
                                        !.lines = <<"dir">>]]
  /\ UNCHANGED <<fsys, outs>>
  /\ UNCHANGED <<storeVars, textVars>>

\* visited.add(realpath), h.update(b'dir\n'), sorted(os.listdir(path))
HashEnter ==
  /\ walk.phase = "hash"
  /\ ~Top.entered
  /\ realpath(FS, Top.path) \notin walk.visited
  /\ \E order \in Orders(listdir(FS, Top.path)) :
       walk' = [walk EXCEPT !.visited = @ \cup {realpath(FS, Top.path)},
                           !.entries = Append(@, realpath(FS, Top.path)),
                           !.stack[Len(walk.stack)] =
                              [@ EXCEPT !.entered = TRUE, !.todo = sorted(order),
                                        !.lines = <<"dir">>]]
  /\ UNCHANGED <<fsys, outs>>
  /\ UNCHANGED <<storeVars, textVars>>

\* a link with its target below the root: 'link <f> <sha1 of the path>'
HashLink ==
  /\ walk.phase = "hash"
  /\ Top.entered /\ Top.todo # << >>
  /\ KeptAsLink(Pf)
  /\ walk' = [walk EXCEPT !.stack[Len(walk.stack)] =
                 [@ EXCEPT !.todo = Tail(@),
                           !.lines = @ \o LinkLine(Head(Top.todo),
                                          relativize_link(FS, Pf, walk.root))]]
  /\ UNCHANGED <<fsys, outs>>
  /\ UNCHANGED <<storeVars, textVars>>

\* a directory, or a link to one outside the root (warning): recursion
HashSubdir ==
  /\ walk.phase = "hash"
  /\ Top.entered /\ Top.todo # << >>
  /\ ~KeptAsLink(Pf)
  /\ isdir(FS, Pf)
  /\ walk' = [walk EXCEPT !.warned = IF islink(FS, Pf) THEN @ \cup {Pf} ELSE @,
                          !.stack = Append(@, Frame(Pf, << >>))]
  /\ UNCHANGED <<fsys, outs>>
  /\ UNCHANGED <<storeVars, textVars>>

\* a file, or a link to one outside the root (warning): 'file <f> <hash>'
HashFile ==
  /\ walk.phase = "hash"
  /\ Top.entered /\ Top.todo # << >>
  /\ ~KeptAsLink(Pf)
  /\ ~isdir(FS, Pf)
  /\ walk' = [walk EXCEPT !.warned = IF islink(FS, Pf) THEN @ \cup {Pf} ELSE @,
                          !.stack[Len(walk.stack)] =
                             [@ EXCEPT !.todo = Tail(@),
                                       !.lines = @ \o FileLine(Head(Top.todo),
                                                      FS[realpath(FS, Pf)].content)]]
  /\ UNCHANGED <<fsys, outs>>
  /\ UNCHANGED <<storeVars, textVars>>

\* return h.hexdigest(): to the call above, which goes on with
\* 'dir <f> <digest>'; or to add_directory, which copies the directory
\* unless the stored directory exists
HashReturn ==
  /\ walk.phase = "hash"
  /\ Top.entered /\ Top.todo = << >>
  /\ IF Len(walk.stack) > 1
     THEN walk' = [walk EXCEPT !.stack =
                     [PopFrame EXCEPT ![Len(walk.stack) - 1] =
                        [@ EXCEPT !.todo = Tail(@),
                                  !.lines = @ \o DirLine(basename(Top.path), Top.lines)]]]
     ELSE walk' = [walk EXCEPT !.digest = Top.lines,
                              !.phase = IF Stored(Top.lines) # {} THEN "index" ELSE "copy",
                              !.stack = IF Stored(Top.lines) # {} THEN << >>
                                        ELSE <<Frame(walk.root, << >>)>>]
  /\ UNCHANGED <<fsys, outs>>
  /\ UNCHANGED <<storeVars, textVars>>

\* copy_directory: os.mkdir(destination), os.listdir(sourcepath)
CopyEnter ==
  /\ walk.phase = "copy"
  /\ ~Top.entered
  /\ \E order \in Orders(listdir(FS, Top.path)) :
       walk' = [walk EXCEPT !.made = @ \cup {[at |-> Top.at, node |-> Dir]},
                           !.stack[Len(walk.stack)] =
                              [@ EXCEPT !.entered = TRUE, !.todo = order]]
  /\ UNCHANGED <<fsys, outs>>
  /\ UNCHANGED <<storeVars, textVars>>

\* os.symlink(link, df)
CopyLink ==
  /\ walk.phase = "copy"
  /\ Top.entered /\ Top.todo # << >>
  /\ KeptAsLink(Pf)
  /\ walk' = [walk EXCEPT !.made = @ \cup {[at |-> Top.at \o <<Head(Top.todo)>>,
                                             node |-> Link(relativize_link(FS, Pf, walk.root))]},
                          !.stack[Len(walk.stack)] = [@ EXCEPT !.todo = Tail(@)]]
  /\ UNCHANGED <<fsys, outs>>
  /\ UNCHANGED <<storeVars, textVars>>

\* copy_directory(pf, df, root)
CopySubdir ==
  /\ walk.phase = "copy"
  /\ Top.entered /\ Top.todo # << >>
  /\ ~KeptAsLink(Pf)
  /\ isdir(FS, Pf)
  /\ walk' = [walk EXCEPT !.stack = Append(@, Frame(Pf, Top.at \o <<Head(Top.todo)>>))]
  /\ UNCHANGED <<fsys, outs>>
  /\ UNCHANGED <<storeVars, textVars>>

\* copy_file(fd, df)
CopyFile ==
  /\ walk.phase = "copy"
  /\ Top.entered /\ Top.todo # << >>
  /\ ~KeptAsLink(Pf)
  /\ ~isdir(FS, Pf)
  /\ walk' = [walk EXCEPT !.made = @ \cup {[at |-> Top.at \o <<Head(Top.todo)>>,
                                             node |-> File(FS[realpath(FS, Pf)].content)]},
                          !.stack[Len(walk.stack)] = [@ EXCEPT !.todo = Tail(@)]]
  /\ UNCHANGED <<fsys, outs>>
  /\ UNCHANGED <<storeVars, textVars>>

\* copy_directory returns: to the call above, or to add_directory
CopyReturn ==
  /\ walk.phase = "copy"
  /\ Top.entered /\ Top.todo = << >>
  /\ IF Len(walk.stack) > 1
     THEN walk' = [walk EXCEPT !.stack =
                     [PopFrame EXCEPT ![Len(walk.stack) - 1] = [@ EXCEPT !.todo = Tail(@)]]]
     ELSE walk' = [walk EXCEPT !.phase = "index", !.stack = << >>]
  /\ UNCHANGED <<fsys, outs>>
  /\ UNCHANGED <<storeVars, textVars>>

\* self.metadata.add(objectid, metadata); return Entry(...)
AddDirectoryReturn ==
  /\ walk.phase = "index"
  /\ outs' = Append(outs,
       IF Stored(walk.digest) # {}
       THEN Out(walk.root, "returned", "", walk.digest, walk.warned,
                outs[CHOOSE i \in Stored(walk.digest) : TRUE].made, FALSE)
       ELSE Out(walk.root, "returned", "", walk.digest, walk.warned, walk.made, TRUE))
  /\ walk' = NoWalk
  /\ UNCHANGED fsys
  /\ UNCHANGED <<storeVars, textVars>>

\* a store that was created, no FileStore call in flight, and one of the
\* filesystems
TreeInit ==
  /\ db = EmptyBag
  /\ conn = EmptyBag
  /\ shards = {}
  /\ blobs = [h \in Digests |-> "absent"]
  /\ pc = "idle"
  /\ call = NoCall
  /\ path = CreatedStore
  /\ pre = [db |-> EmptyBag, blobs |-> [h \in Digests |-> "absent"], shards |-> {},
            path |-> CreatedStore]
  /\ last = NoLast
  /\ fsys \in FsNames
  /\ walk = NoWalk
  /\ outs = << >>
  /\ parse = NoParse
  /\ reader = NoReader

TreeNext ==
  \/ \E root \in {R, U} : AddDirectoryBegin(root)
  \/ HashLoop
  \/ HashEnter
  \/ HashLink
  \/ HashSubdir
  \/ HashFile
  \/ HashReturn
  \/ CopyEnter
  \/ CopyLink
  \/ CopySubdir
  \/ CopyFile
  \/ CopyReturn
  \/ AddDirectoryReturn

\* a step of hash_directory: the interpreter goes on with the call until it
\* returns or raises
HashStep ==
  \/ HashLoop
  \/ HashEnter
  \/ HashLink
  \/ HashSubdir
  \/ HashFile
  \/ HashReturn

TreeSpec == TreeInit /\ [][TreeNext]_vars

\* the same, the call of hash_directory in flight going on step after step
TreeLive == TreeInit /\ [][TreeNext]_vars /\ WF_vars(HashStep)

(***************************************************************************)
(* A query given as text: parse_expression for the viewer's search line,   *)
(* parse_query_metadata for the query command; then FileStore.query        *)
(***************************************************************************)
\* the caller hands the text to one of the two functions
ParseBegin(by, input) ==
  /\ parse.by = ""
  /\ parse' = [NoParse EXCEPT !.by = by, !.input = input]
  /\ UNCHANGED <<storeVars, treeVars, reader>>

\* the end of a parse with an error: ParserError raised, or sys.exit(1)
ParseRaise(error) ==
  parse' = [parse EXCEPT !.outcome = "raised", !.error = error]

\* parse_expression, one turn of the loop: parser.expression(), then
\* _update_conditions
ParseExpression ==
  /\ parse.by = "parse_expression" /\ parse.outcome = ""
  /\ parse.at < Len(parse.input)
  /\ LET text == parse.input[parse.at + 1]
         expr == led(text[1], text[2], text[3])
     IN  IF expr.error # "" THEN ParseRaise(expr.error)
         ELSE IF update_error(parse.conditions, expr) # ""
              THEN ParseRaise(update_error(parse.conditions, expr))
         ELSE parse' = [parse EXCEPT !.at = @ + 1,
                                     !.conditions = update_conditions(@, expr)]
  /\ UNCHANGED <<storeVars, treeVars, reader>>

\* parse_query_metadata given one argument without '=': it is an objectid,
\* no conditions are returned
QueryArgsHash ==
  /\ parse.by = "parse_query_metadata" /\ parse.outcome = ""
  /\ Len(parse.input) = 1 /\ Find(parse.input[1], "=") = 0
  /\ parse' = [parse EXCEPT !.outcome = "hash"]
  /\ UNCHANGED <<storeVars, treeVars, reader>>

\* parse_query_metadata, one turn of the loop over the arguments
ParseQueryArg ==
  /\ parse.by = "parse_query_metadata" /\ parse.outcome = ""
  /\ parse.at < Len(parse.input)
  /\ ~(Len(parse.input) = 1 /\ Find(parse.input[1], "=") = 0)
  /\ LET expr == QueryArg(parse.input[parse.at + 1])
     IN  IF expr.error # "" THEN ParseRaise(expr.error)
         ELSE IF QueryArgError(parse.conditions, expr) # ""
              THEN ParseRaise(QueryArgError(parse.conditions, expr))
         ELSE parse' = [parse EXCEPT !.at = @ + 1,
                                     !.conditions = QueryArgUpdate(@, expr)]
  /\ UNCHANGED <<storeVars, treeVars, reader>>

\* the end of the text: return conditions
ParseReturn ==
  /\ parse.by # "" /\ parse.outcome = ""
  /\ parse.at = Len(parse.input)
  /\ parse' = [parse EXCEPT !.outcome = "returned"]
  /\ UNCHANGED <<storeVars, treeVars, reader>>

\* the caller goes on with the conditions returned: store.query(conditions)
StoreQuery ==
  /\ parse.outcome = "returned" /\ ~parse.queried
  /\ parse' = [parse EXCEPT !.queried = TRUE]
  /\ UNCHANGED <<storeVars, treeVars, reader>>

\* the search or the command is over
ParseOver ==
  /\ parse.outcome \in {"raised", "hash"} \/ parse.queried
  /\ parse' = NoParse
  /\ UNCHANGED <<storeVars, treeVars, reader>>

ParseInit ==
  /\ TreeInit
  /\ fsys = "plain"

ParseNext ==
  \/ \E input \in Texts(CondTexts, MaxConds) : ParseBegin("parse_expression", input)
  \/ \E input \in Texts(ArgTexts, MaxConds) : ParseBegin("parse_query_metadata", input)
  \/ ParseExpression
  \/ QueryArgsHash
  \/ ParseQueryArg
  \/ ParseReturn
  \/ StoreQuery
  \/ ParseOver

ParseSpec == ParseInit /\ [][ParseNext]_vars

(***************************************************************************)
(* BufferedReader(fp), as hash_file and copy_file loop over it             *)
(***************************************************************************)
\* chunk = fp.read(CHUNKSIZE): size bytes from the place the stream is at
Read(size) ==
  [reader EXCEPT !.chunk = SubSeq(reader.data, reader.pos + 1, reader.pos + size),
                 !.pos = @ + size]

\* what the generator does with the chunk just read: return if it is
\* empty, else yield it
Yield(r) ==
  IF r.chunk = << >> THEN [r EXCEPT !.pc = "returned"]
  ELSE [r EXCEPT !.chunks = Append(@, r.chunk), !.pc = "while"]

\* the first read, before the loop
ReadFirst ==
  /\ reader.pc = "first"
  /\ \E size \in ReadSizes(reader.short, Len(reader.data) - reader.pos) :
       reader' = Yield(Read(size))
  /\ UNCHANGED <<storeVars, treeVars, parse>>

\* while len(chunk) == CHUNKSIZE: read again
ReadAgain ==
  /\ reader.pc = "while"
  /\ Len(reader.chunk) = ChunkSize
  /\ \E size \in ReadSizes(reader.short, Len(reader.data) - reader.pos) :
       reader' = Yield(Read(size))
  /\ UNCHANGED <<storeVars, treeVars, parse>>

\* the chunk was shorter than CHUNKSIZE: the loop and the generator end
ReadEnd ==
  /\ reader.pc = "while"
  /\ Len(reader.chunk) # ChunkSize
  /\ reader' = [reader EXCEPT !.pc = "returned"]
  /\ UNCHANGED <<storeVars, treeVars, parse>>

\* BufferedReader is called on a stream at its beginning
ReadInit ==
  /\ db = EmptyBag
  /\ conn = EmptyBag
  /\ shards = {}
  /\ blobs = [h \in Digests |-> "absent"]
  /\ pc = "idle"
  /\ call = NoCall
  /\ path = CreatedStore
  /\ pre = [db |-> EmptyBag, blobs |-> [h \in Digests |-> "absent"], shards |-> {},
            path |-> CreatedStore]
  /\ last = NoLast
  /\ fsys = "plain"
  /\ walk = NoWalk
  /\ outs = << >>
  /\ parse = NoParse
  /\ \E short \in BOOLEAN, data \in Contents :
       reader = [NoReader EXCEPT !.pc = "first", !.short = short, !.data = data]

ReadNext ==
  \/ ReadFirst
  \/ ReadAgain
  \/ ReadEnd

ReadSpec == ReadInit /\ [][ReadNext]_vars

(***************************************************************************)
(* Properties                                                              *)
(***************************************************************************)
AddDone == pc = "done" /\ last.op \in AddOps
AddReturned == AddDone /\ last.outcome = "returned"
StoreUnchanged == db = pre.db /\ blobs = pre.blobs /\ shards = pre.shards

\* the content digest of an indexed entity: the value of its 'hash' row
HashRows(table) == {r \in BagToSet(table) : r.mkey = "hash"}
DigestOf(table, objectid) ==
  (CHOOSE r \in HashRows(table) : r.objectid = objectid).mvalue_str.str

\* the index holds exactly one entity with this objectid: no row twice, no
\* two rows for one key, and the 'hash' row with the digest
IndexedOnce(objectid, filehash) ==
  /\ \A r \in RowsOf(db, objectid) : CopiesIn(r, db) = 1
  /\ \A r, q \in RowsOf(db, objectid) : r.mkey = q.mkey => r = q
  /\ \E r \in RowsOf(db, objectid) : r.mkey = "hash" /\ r.mvalue_str = PyStr(filehash)

\* C1: in every reachable state, also in the middle of a call and after a
\* call that raised or crashed, every entity of the index has a blob at the
\* path of its 'hash' digest.
C1_NoRowWithoutBlob ==
  \A r \in HashRows(db) : blobs[r.mvalue_str.str] # "absent"

\* C2: an add that returns leaves its entity in the index exactly once and
\* its blob in the object store; when the same source was already added with
\* the same metadata (the entity and its blob were there when the call
\* began), the call returns the objectid of that entity, writes nothing and
\* changes neither the index nor the object store.
C2_SecondAddChangesNothing ==
  AddReturned =>
    /\ last.objectid = ObjectIdOf[<<last.src, last.metadata>>]
    /\ last.result[1].objectid = last.objectid
    /\ IndexedOnce(last.objectid, last.filehash)
    /\ blobs[last.filehash] # "absent"
    /\ (last.objectid \in ObjectIds(pre.db) /\ pre.blobs[last.filehash] # "absent")
         => StoreUnchanged /\ ~last.copied

C2_Witness ==
  /\ AddReturned
  /\ last.objectid \in ObjectIds(pre.db)
  /\ pre.blobs[last.filehash] = "present"

\* the entities of a table whose 'hash' is filehash
Holders(table, filehash) ==
  {r.objectid : r \in {x \in HashRows(table) : x.mvalue_str = PyStr(filehash)}}

\* the normalized record of an indexed entity: per key, the type of the
\* column that holds the value, and the value
StoredRecord(table, objectid) ==
  [k \in MetaKeys |->
     IF \A r \in RowsOf(table, objectid) : r.mkey # k THEN Absent
     ELSE LET r == CHOOSE x \in RowsOf(table, objectid) : x.mkey = k
          IN  [type |-> IF r.mvalue_str # NULL THEN "str" ELSE "int",
               value |-> get_value(r)]]

\* C3: when an add returns for content whose blob an entity with another
\* normalized record already holds, the index then holds two entities with
\* distinct objectids and that same 'hash' digest, and the object store is
\* as it was: the content is not copied again, the blob is not touched.
C3_SharedBlob ==
  (AddReturned /\ pre.blobs[last.filehash] # "absent") =>
    \A o \in Holders(pre.db, last.filehash) :
      StoredRecord(pre.db, o) # RecordOf[<<last.src, last.metadata>>] =>
        /\ o # last.objectid
        /\ {o, last.objectid} \subseteq ObjectIds(db)
        /\ DigestOf(db, o) = last.filehash
        /\ DigestOf(db, last.objectid) = last.filehash
        /\ blobs = pre.blobs
        /\ shards = pre.shards
        /\ ~last.copied

\* C4: after remove(id) has returned, the blob of the removed entity's
\* digest exists if and only if an entity that remains has that digest.
C4_BlobIffReferenced ==
  (pc = "done" /\ last.op = "remove" /\ last.outcome = "returned")
    => (blobs[last.filehash] # "absent" <=> has_filehash(db, last.filehash))

\* C5: a call that raises leaves the index and the object store directory
\* tree as they were when the call began.
C5_RaiseChangesNothing ==
  (pc = "done" /\ last.outcome = "raised") => StoreUnchanged

\* the value shapes C6 and C7 call malformed: neither a str nor an int nor a
\* dict with exactly 'type' and 'value' whose tag is 'int' or 'str'
WellFormedValue(v) ==
  \/ IsStr(v)
  \/ IsInt(v)
  \/ /\ IsDict(v)
     /\ Keys(v.dict) = {"type", "value"}
     /\ v.dict["type"] \in {PyStr("int"), PyStr("str")}
Malformed(metadata) == \E k \in Keys(metadata) : ~WellFormedValue(metadata[k])

\* C6: an add called with malformed metadata raises before anything is
\* written: no blob, no shard directory, no row; the store is as before.
C6_MalformedRaisesBeforeWriting ==
  (AddDone /\ Malformed(last.metadata) /\ last.outcome = "raised"
     /\ last.error \in {"ValueError", "TypeError", "OperationalError"})
    => StoreUnchanged /\ ~last.copied

\* C7: normalize_metadata accepts a dict only if each of its values is a
\* str, an int, or a dict with exactly 'type' and 'value' whose tag is 'int'
\* or 'str': no call gets past normalization with any other value.
C7_NormalizeAcceptsOnlyWellFormed ==
  \A x \in AddInputs :
     (pc \notin {"idle", "done"} /\ call.src = x[1] /\ call.metadata = x[2]
        /\ NormalizeError(MetadataOf[x]) = "")
       => ~Malformed(x[2])

\* the value the caller meant: the 'value' of a tagged dict, a bare value
\* itself
PlainValue(v) == IF IsDict(v) THEN v.dict["value"] ELSE v

\* the mapping C8 expects for an add of source src with dict metadata
RoundTrip(src, metadata) ==
  [k \in MetaKeys |->
     IF k = "hash" THEN PyStr(HexDigest(src))
     ELSE IF metadata[k] = Absent THEN Absent ELSE PlainValue(metadata[k])]

GetReturned == pc = "done" /\ last.op = "get" /\ last.outcome = "returned"

\* C8: an add of a dict that normalization accepts is not refused for its
\* metadata, and get(objectid) of the entity returns, for every source and
\* dict whose add returns that objectid, the plain value of each key of the
\* dict plus 'hash' with the content digest: nothing lost, added or retyped.
C8_GetRoundTrip ==
  /\ (AddDone /\ last.outcome = "raised" /\ last.filehash # ""
        /\ NormalizeError(MetadataOf[<<last.src, last.metadata>>]) = ""
        /\ HashMetadataError(MetadataOf[<<last.src, last.metadata>>]) = "")
       => last.error \in {"OSError", "IOError", "sqlite3.Error"}
  /\ GetReturned =>
       /\ last.result[1].objectid = last.objectid
       /\ \E x \in Accepted : ObjectIdOf[x] = last.objectid
       /\ \A x \in Accepted :
             ObjectIdOf[x] = last.objectid
               => last.result[1].metadata = RoundTrip(x[1], x[2])

\* a query without limit has handed back its entries
QueryReturned ==
  pc = "done" /\ last.op = "query" /\ last.outcome = "returned" /\ last.limit = NULL
ResultIds == {last.result[i].objectid : i \in 1..Len(last.result)}

HasType(v, t) == IF t = "str" THEN IsStr(v) ELSE IsInt(v)

\* every operand of the condition has the condition's type
WellTyped(value) ==
  IsDict(value) => \A k \in OperatorsOf(value) : HasType(value.dict[k], CondType(value))

\* one comparison of a condition on an attribute value
Holds(attr, k, v) ==
  CASE k = "equal" -> attr = v
    [] k = "gt" -> attr.int > v.int
    [] k = "lt" -> attr.int < v.int

\* the entity with this attribute mapping satisfies the condition on key:
\* the key is present and each comparison holds on the value of the
\* condition's type
Satisfies(metadata, key, value) ==
  /\ metadata[key] # Absent
  /\ ~IsDict(value) => metadata[key] = value
  /\ IsDict(value) =>
       \A k \in OperatorsOf(value) :
         /\ HasType(metadata[key], CondType(value))
         /\ Holds(metadata[key], k, value.dict[k])

\* C9: a query with non-empty conditions returns exactly the stored entities
\* that satisfy every per-key condition, and a condition that compares on
\* one type returns no entity whose value for the key has the other type
C9_QueryConjunction ==
  (/\ QueryReturned
   /\ Keys(last.conditions) # {}
   /\ \A key \in Keys(last.conditions) : WellTyped(last.conditions[key]))
  => /\ ResultIds = {o \in ObjectIds(db) :
                       \A key \in Keys(last.conditions) :
                         Satisfies(MetadataGet(db, o), key, last.conditions[key])}
     /\ \A i \in 1..Len(last.result), key \in Keys(last.conditions) :
          (~IsDict(last.conditions[key]) \/ OperatorsOf(last.conditions[key]) # {})
            => HasType(last.result[i].metadata[key], CondType(last.conditions[key]))

\* a query on two keys that returns the one entity satisfying both, and not
\* the stored entity whose 'c' is the str "12"
C9_Witness ==
  /\ QueryReturned
  /\ last.conditions["c"] = PyInt(12)
  /\ last.conditions["d"] = PyStr("x")
  /\ Len(last.result) = 1
  /\ \E o \in ObjectIds(db) \ ResultIds : MetadataGet(db, o)["c"] = PyStr("12")

TypeOnly(value) == IsDict(value) /\ Keys(value.dict) = {"type"}

\* C10: a condition {type: T} without operator matches exactly the entities
\* whose value for the key has type T
C10_TypeOnlyCondition ==
  QueryReturned =>
    \A key \in Keys(last.conditions) :
      TypeOnly(last.conditions[key]) =>
        /\ \A i \in 1..Len(last.result) :
             HasType(last.result[i].metadata[key], CondType(last.conditions[key]))
        /\ Keys(last.conditions) = {key} =>
             ResultIds = {o \in ObjectIds(db) :
                            HasType(MetadataGet(db, o)[key], CondType(last.conditions[key]))}

(***************************************************************************)
(* What the results carry                                                  *)
(***************************************************************************)
\* a get, a query_one or a query has handed back its entries
Returned ==
  pc = "done" /\ last.outcome = "returned" /\ last.op \in {"get", "query_one", "query"}

\* the dict of an entry is the attribute mapping the index holds for it
CompleteMapping(table, entry) ==
  \A k \in MetaKeys :
    IF StoredRecord(table, entry.objectid)[k] = Absent
    THEN entry.metadata[k] = Absent
    ELSE entry.metadata[k] = StoredRecord(table, entry.objectid)[k].value

\* C11: every entry that get, query_one and query hand back carries the
\* complete attribute mapping of its entity, the content digest 'hash'
\* included, whatever keys the conditions tested
C11_ResultsCarryAllAttributes ==
  Returned =>
    \A i \in 1..Len(last.result) :
      /\ last.result[i].metadata["hash"] # Absent
      /\ CompleteMapping(db, last.result[i])

(***************************************************************************)
(* Order and number of the results                                         *)
(***************************************************************************)
\* a query, with or without limit, has handed back its entries
AnyQueryReturned == pc = "done" /\ last.op = "query" /\ last.outcome = "returned"

\* the stored entities that satisfy every condition; all of them when there
\* is no condition
Matching(table, conditions) ==
  {o \in ObjectIds(table) :
     \A key \in Keys(conditions) :
       Satisfies(MetadataGet(table, o), key, conditions[key])}

\* C12: query(conditions, limit=n) yields matching entities only, in
\* strictly ascending objectid order (so each at most once), and exactly
\* min(n, number of matching entities) of them; without limit it yields
\* every matching entity, hence every stored entity for empty conditions
\* and nothing for an empty store
C12_QueryLimitAndOrder ==
  (/\ AnyQueryReturned
   /\ \A key \in Keys(last.conditions) : WellTyped(last.conditions[key]))
  => LET matching == Matching(db, last.conditions)
         ids == {last.result[i].objectid : i \in 1..Len(last.result)}
     IN  /\ ids \subseteq matching
         /\ \A i, j \in 1..Len(last.result) :
              i < j => SeqLess(last.result[i].objectid, last.result[j].objectid)
         /\ Len(last.result) =
              IF last.limit # NULL /\ last.limit.int < Cardinality(matching)
              THEN last.limit.int ELSE Cardinality(matching)
         /\ (last.limit = NULL /\ Keys(last.conditions) = {}) => ids = ObjectIds(db)

\* a query with limit 1 yields one of the two entities that match its
\* condition
C12_Witness ==
  /\ AnyQueryReturned
  /\ Keys(last.conditions) # {}
  /\ Cardinality(Matching(db, last.conditions)) = 2
  /\ last.limit = PyInt(1)
  /\ Len(last.result) = 1

(***************************************************************************)
(* Conditions that query and query_one refuse                              *)
(***************************************************************************)
\* the error a non-empty condition dict is to be refused with, "" if none:
\* no 'type', a type other than 'str' and 'int', an operator other than
\* equal, gt and lt, or gt/lt on 'str'
Refusal(value) ==
  IF ~IsDict(value) \/ Keys(value.dict) = {} THEN ""
  ELSE IF value.dict["type"] = Absent THEN "TypeError"
  ELSE IF value.dict["type"] \notin {PyStr("str"), PyStr("int")} THEN "TypeError"
  ELSE IF OperatorsOf(value) \ {"equal", "gt", "lt"} # {} THEN "ValueError"
  ELSE IF value.dict["type"] = PyStr("str") /\ OperatorsOf(value) \cap {"gt", "lt"} # {}
       THEN "ValueError"
  ELSE ""

Refused(conditions) == {key \in Keys(conditions) : Refusal(conditions[key]) # ""}

\* C13: a query or query_one whose conditions hold a refused condition dict
\* raises the TypeError or ValueError of that condition, before the query
\* is executed and leaving the index and the object store as they were
C13_RefusedConditionsRaise ==
  (pc = "done" /\ last.op \in {"query", "query_one"} /\ Refused(last.conditions) # {})
  => /\ last.outcome = "raised"
     /\ last.error \in {Refusal(last.conditions[key]) : key \in Refused(last.conditions)}
     /\ ~last.executed
     /\ StoreUnchanged

\* query_one is refused for gt on type 'str' while the index holds entities
C13_Witness ==
  /\ pc = "done" /\ last.op = "query_one"
  /\ last.conditions["c"] = Cond(PyStr("str"), Absent, PyStr("12"), Absent, Absent)
  /\ last.outcome = "raised" /\ last.error = "ValueError"
  /\ ObjectIds(db) # {}

(***************************************************************************)
(* get and remove of an objectid the index does not hold                   *)
(***************************************************************************)
\* C14: get and remove of an objectid that no entity has raise KeyError and
\* leave the index and the object store as they were; a remove that returns
\* leaves no row of its objectid, so that a get and a second remove of it
\* raise, and the entries of a query are entities of the index only
C14_MissingObjectidRaises ==
  /\ (pc = "done" /\ last.op \in {"get", "remove"} /\ last.objectid # NoId
        /\ last.objectid \notin ObjectIds(pre.db))
       => (last.outcome = "raised" /\ last.error = "KeyError" /\ StoreUnchanged)
  /\ (pc = "done" /\ last.op = "remove" /\ last.outcome = "returned")
       => (last.objectid \in ObjectIds(pre.db) /\ last.objectid \notin ObjectIds(db))
  /\ (pc = "done" /\ last.op \in {"query", "query_one"} /\ last.outcome = "returned")
       => \A i \in 1..Len(last.result) : last.result[i].objectid \in ObjectIds(db)

\* a remove raises KeyError for an objectid the index does not hold while it
\* holds another entity
C14_Witness ==
  /\ pc = "done" /\ last.op = "remove"
  /\ last.outcome = "raised" /\ last.error = "KeyError"
  /\ last.objectid \notin ObjectIds(db)
  /\ ObjectIds(db) # {}
  /\ StoreUnchanged

(***************************************************************************)
(* MetadataStore.add of an objectid the index already holds                *)
(***************************************************************************)
\* MetadataStore.add has returned within the add call that is over
AddKnown == AddDone /\ last.added # ""

CreateDone == pc = "done" /\ last.op = "create_store"

\* C16: create_store(path) succeeds exactly when the path does not exist or
\* is an empty directory; after success the path holds objects/ and the
\* database file and FileStore(path) opens it; in every other case it
\* raises CreationError
C16_CreateStoreSucceedsIffFree ==
  CreateDone =>
    /\ last.outcome = "returned" <=>
         (pre.path.kind = "absent" \/ (pre.path.kind = "dir" /\ pre.path.entries = {}))
    /\ last.outcome = "returned" =>
         (path.kind = "dir" /\ {"objects", "database"} \subseteq path.entries
            /\ OpenError(path) = "")
    /\ last.outcome # "returned" =>
         (last.outcome = "raised" /\ last.error = "CreationError" /\ path = pre.path)

(***************************************************************************)
(* Directory trees with symbolic links                                     *)
(***************************************************************************)
\* the entries of the tree at root, links not followed
Below(fs, root) ==
  {p \in DOMAIN fs : Len(p) > Len(root) /\ SubSeq(p, 1, Len(root)) = root}
LinksBelow(fs, root) == {p \in Below(fs, root) : fs[p].kind = "link"}

\* the target of the link at p is a directory that p is in
ToAncestor(fs, p) ==
  Len(fs[p].target) < Len(p) /\ SubSeq(p, 1, Len(fs[p].target)) = fs[p].target

\* the target of the link at p is the root or a directory the root is in
ToRootOrAbove(fs, p, root) ==
  Len(fs[p].target) <= Len(root) /\ SubSeq(root, 1, Len(fs[p].target)) = fs[p].target

\* the target of the link at p is in the tree, below the root
Inside(fs, p, root) == fs[p].target \in Below(fs, root)

\* the entry that a call left in the stored directory for the source entry p
StoredAt(out, p) ==
  {e.node : e \in {x \in out.made : x.at = SubSeq(p, Len(out.root) + 1, Len(p))}}

\* the call raised the loop error and stored nothing
LoopRaised(out) ==
  out.outcome = "raised" /\ out.error = "ValueError" /\ out.made = {} /\ ~out.copied

\* C17 as stated: adding a directory that holds a symbolic link to a
\* directory the link is in raises the loop error (ValueError) and stores
\* nothing
C17_AncestorLinkRaises ==
  \A i \in 1..Len(outs) :
    (\E p \in LinksBelow(FS, outs[i].root) : ToAncestor(FS, p)) => LoopRaised(outs[i])

\* C17, amended: adding a directory that holds a symbolic link to the
\* directory added itself or to a directory above it raises the loop error
\* (ValueError) and stores nothing; a directory whose links all lead to
\* entries below its root, a directory the link is in among them, is
\* added, each link stored as the relative path to its target
C17_LinkToRootOrAboveRaises ==
  \A i \in 1..Len(outs) :
    LET links == LinksBelow(FS, outs[i].root)
    IN  /\ (\E p \in links : ToRootOrAbove(FS, p, outs[i].root)) => LoopRaised(outs[i])
        /\ (links # {} /\ \A p \in links : Inside(FS, p, outs[i].root))
             => /\ outs[i].outcome = "returned"
                /\ \A p \in links :
                     StoredAt(outs[i], p) = {Link(relpath(FS[p].target, dirname(p)))}

\* the directory with a link to itself was added and the call raised
C17_Witness ==
  /\ fsys = "toroot"
  /\ Len(outs) > 0
  /\ LoopRaised(outs[1])

\* C18: when a directory none of whose links leads to the directory itself
\* or above it is added, the add returns an entry; a link to an entry below
\* the root is stored as a link holding the relative path to its target, a
\* link to a file or directory outside the tree is stored as a copy of it,
\* and a UsageWarning is issued for it
C18_LinksStoredOrCopied ==
  \A i \in 1..Len(outs) :
    LET links == LinksBelow(FS, outs[i].root)
    IN  (links # {} /\ \A p \in links : ~ToRootOrAbove(FS, p, outs[i].root))
        => /\ outs[i].outcome = "returned"
           /\ \A p \in links :
                IF Inside(FS, p, outs[i].root)
                THEN StoredAt(outs[i], p) = {Link(relpath(FS[p].target, dirname(p)))}
                ELSE /\ StoredAt(outs[i], p) = {FS[FS[p].target]}
                     /\ p \in outs[i].warned

(***************************************************************************)
(* hash_metadata and the normalized record                                 *)
(***************************************************************************)
\* an add is past hash_metadata, its objectid computed
ObjectidComputed == pc = "mkdir" /\ <<call.src, call.metadata>> \in Accepted

\* C19: the objectid hash_metadata gave the add in flight is the objectid
\* of exactly the accepted mappings with the same normalized record: the
\* same keys with the same type and value for each key
C19_ObjectidIdentifiesRecord ==
  ObjectidComputed
    => \A y \in Accepted :
         (ObjectIdOf[y] = call.objectid)
           <=> (RecordOf[y] = RecordOf[<<call.src, call.metadata>>])

(***************************************************************************)
(* hash_directory and the order of os.listdir                              *)
(***************************************************************************)
\* the names, kinds, file contents and relative link targets of a tree
Shape(fs, root) ==
  {[at |-> SubSeq(p, Len(root) + 1, Len(p)), kind |-> fs[p].kind,
    content |-> fs[p].content,
    target |-> IF fs[p].kind = "link" THEN relpath(fs[p].target, dirname(p)) ELSE << >>] :
     p \in Below(fs, root)}

\* C20: two calls on trees with the same names, kinds, file contents and
\* relative link targets end alike and give the same digest, whatever
\* order os.listdir gave the names in during either call
C20_DigestIndependentOfListingOrder ==
  \A i, j \in 1..Len(outs) :
    Shape(FS, outs[i].root) = Shape(FS, outs[j].root)
      => (outs[i].outcome = outs[j].outcome /\ outs[i].digest = outs[j].digest)

\* two trees alike, at different places, were hashed to the same digest
C20_Witness ==
  /\ Len(outs) = 2
  /\ outs[1].root # outs[2].root
  /\ Shape(FS, outs[1].root) = Shape(FS, outs[2].root)
  /\ outs[1].outcome = "returned"
  /\ outs[1].digest = outs[2].digest

(***************************************************************************)
(* The rollback of an add whose metadata insert failed                     *)
(***************************************************************************)
\* the errors MetadataStore.add lets through to add_file / add_directory
InsertErrors == {"OperationalError", "sqlite3.Error"}

\* an add raised out of the handler around self.metadata.add
InsertFailed == AddDone /\ last.outcome = "raised" /\ last.error \in InsertErrors

\* C21: when the metadata insert of an add fails and the blob of the digest
\* was in the object store before the call, an entity of the index holding
\* that digest, the blob is still present after the call raised
C21_RollbackKeepsSharedBlob ==
  (/\ InsertFailed
   /\ pre.blobs[last.filehash] = "present"
   /\ Holders(pre.db, last.filehash) # {})
    => blobs[last.filehash] = "present"

\* C22: when the metadata insert of an add fails after the call wrote a
\* blob that was not there before, the blob is deleted again and the object
\* store, shard directories included, is as it was before the call
C22_RollbackRestoresStoreTree ==
  (InsertFailed /\ pre.blobs[last.filehash] = "absent" /\ last.copied)
    => blobs = pre.blobs /\ shards = pre.shards

(***************************************************************************)
(* MetadataStore.add and MetadataStore.remove as transactions              *)
(***************************************************************************)
\* the index, as committed and as the connection sees it, is as it was when
\* the call began
IndexAsBefore == db = pre.db /\ conn = pre.db

\* the committed index holds the record of the entity, one row per key, and
\* the rows of the other entities as before the call
RecordInserted(objectid, record) ==
  /\ conn = db
  /\ RowsOf(db, objectid) =
       {Row(objectid, k, record[k].type, record[k].value) : k \in Keys(record)}
  /\ \A r \in RowsOf(db, objectid) : CopiesIn(r, db) = 1
  /\ DeleteRows(db, objectid) = DeleteRows(pre.db, objectid)

\* the committed index holds no row of the entity, and the rows of the other
\* entities as before the call
RecordDeleted(objectid) ==
  /\ conn = db
  /\ RowsOf(db, objectid) = {}
  /\ db = DeleteRows(pre.db, objectid)

\* MetadataStore.remove raised: nothing was deleted, or sqlite failed
RemoveRaised ==
  pc = "done" /\ last.op = "remove" /\ last.outcome = "raised"
    /\ last.error \in {"KeyError", "sqlite3.Error"}

\* MetadataStore.remove returned to FileStore.remove
RemoveCommitted ==
  \/ pc = "gc"
  \/ pc = "done" /\ last.op = "remove"
       /\ (last.outcome = "returned" \/ last.error = "OSError")

\* C23: when MetadataStore.add raised, also after some of the INSERTs of
\* the entity ran, the index is as before the call, no row of the entity
\* visible; nothing is committed while the rows are inserted; when
\* MetadataStore.remove raised no row was deleted; when add returned True
\* the index holds one row per attribute of the entity, 'hash' included,
\* and when remove returned it holds none of them, the other entities'
\* rows as before
C23_IndexMutationsAtomic ==
  /\ (pc = "undo" \/ InsertFailed) => IndexAsBefore
  /\ pc = "rows" => db = pre.db
  /\ RemoveRaised => IndexAsBefore
  /\ (pc = "return" /\ call.added = "True")
       => RecordInserted(call.objectid, CallRecord)
  /\ (AddReturned /\ last.added = "True")
       => RecordInserted(last.objectid, RecordOf[<<last.src, last.metadata>>])
  /\ RemoveCommitted
       => RecordDeleted(IF pc = "gc" THEN call.objectid ELSE last.objectid)

\* an add raised after the insert of some rows of its entity
C23_Witness ==
  /\ InsertFailed
  /\ last.partial
  /\ IndexAsBefore

(***************************************************************************)
(* hash_directory comes to an end                                          *)
(***************************************************************************)
Hashing == walk.phase = "hash"

\* no real directory was gone into twice by the call in flight
NoReentry ==
  \A i, j \in 1..Len(walk.entries) : i # j => walk.entries[i] # walk.entries[j]

\* hash_directory is left with a digest or with the call raised
HashEnded ==
  /\ walk.phase \in {"copy", "index"} => walk.digest # << >>
  /\ \A i \in 1..Len(outs) :
       \/ outs[i].outcome = "returned" /\ outs[i].digest # << >>
       \/ outs[i].outcome = "raised" /\ outs[i].error = "ValueError"

\* C24: on every filesystem, those whose links lead back to a directory
\* above them included, a call of hash_directory comes to an end, with a
\* digest or with an error raised, and it goes into no real directory
\* twice
C24_HashDirectoryTerminates ==
  /\ [](NoReentry /\ HashEnded)
  /\ (Hashing ~> ~Hashing)

\* the call on the tree with a link to the directory above its root ended
C24_Witness ==
  /\ fsys = "toabove"
  /\ Len(outs) > 0
  /\ outs[1].outcome = "raised"

(***************************************************************************)
(* Several conditions on one key                                           *)
(***************************************************************************)
\* what one condition of the input says, taken by itself
ExprOf(by, text) ==
  IF by = "parse_expression" THEN led(text[1], text[2], text[3]) ELSE QueryArg(text)

\* the comparison a condition asks for: 'equal', 'gt' or 'lt'
ReqOf(expr) == CHOOSE k \in Keys(expr.cond) : k # "type"

\* two conditions of the input are on the same key with different types,
\* or with the same comparison
Conflicting(by, input) ==
  \E i, j \in 1..Len(input) :
    LET a == ExprOf(by, input[i])
        b == ExprOf(by, input[j])
    IN  /\ i < j
        /\ a.error = "" /\ b.error = ""
        /\ a.key = b.key
        /\ (a.cond["type"] # b.cond["type"] \/ ReqOf(a) = ReqOf(b))

\* per key, one dict with the type and every comparison the conditions of
\* the input give on that key
Accumulated(by, input) ==
  [key \in CondKeys |->
     LET on == {i \in 1..Len(input) : ExprOf(by, input[i]).key = key}
     IN  IF on = {} THEN Absent
         ELSE [k \in CondFields |->
                 IF \A i \in on : ExprOf(by, input[i]).cond[k] = Absent THEN Absent
                 ELSE ExprOf(by, input[CHOOSE i \in on :
                                         ExprOf(by, input[i]).cond[k] # Absent]).cond[k]]]

ParseErrorOf(by) == IF by = "parse_expression" THEN "ParserError" ELSE "exit 1"

\* C25: the conditions on one key come together in one dict for the key,
\* as long as they are taken and when they are returned; a text with two
\* conditions on a key that differ in type or repeat a comparison ends
\* with ParserError (parse_expression) or exit status 1
\* (parse_query_metadata), and conditions reach FileStore.query only when
\* the parse returned them
C25_ConditionsAccumulateOrFail ==
  /\ parse.outcome \in {"", "returned"}
       => /\ ~Conflicting(parse.by, SubSeq(parse.input, 1, parse.at))
          /\ parse.conditions = Accumulated(parse.by, SubSeq(parse.input, 1, parse.at))
  /\ parse.outcome = "returned" => parse.at = Len(parse.input)
  /\ (parse.outcome # "" /\ Conflicting(parse.by, parse.input))
       => parse.outcome = "raised" /\ parse.error = ParseErrorOf(parse.by)
  /\ parse.queried => parse.outcome = "returned"

\* two conditions on the key k were returned as one range and passed to
\* the store
C25_Witness ==
  /\ parse.by = "parse_expression"
  /\ parse.queried
  /\ parse.conditions[<<"k">>] # Absent
  /\ parse.conditions[<<"k">>]["gt"] = PyInt(2)
  /\ parse.conditions[<<"k">>]["lt"] = PyInt(2)

(***************************************************************************)
(* The chunks of BufferedReader                                            *)
(***************************************************************************)
RECURSIVE Concat(_)
Concat(chunks) == IF chunks = << >> THEN << >> ELSE Head(chunks) \o Concat(Tail(chunks))

\* C26: when the generator has returned, the chunks it yielded are not
\* empty, all but the last have CHUNKSIZE bytes, and together they are
\* the whole content of the stream (none for an empty stream), whatever
\* the number of bytes the single reads returned
C26_ChunksAreWholeContent ==
  reader.pc = "returned"
    => /\ \A i \in 1..Len(reader.chunks) : reader.chunks[i] # << >>
       /\ \A i \in 1..(Len(reader.chunks) - 1) : Len(reader.chunks[i]) = ChunkSize
       /\ Concat(reader.chunks) = reader.data

(***************************************************************************)
(* Blobs and entities when every call returns                              *)
(***************************************************************************)
\* the digests that have a blob in the object store
StoredDigests == {h \in Digests : blobs[h] # "absent"}

\* the 'hash' values of the entities of the index
IndexedDigests == {r.mvalue_str.str : r \in HashRows(db)}

\* C27: between calls, after add_file, add_directory, add and remove calls
\* that all returned, the digests with a blob in the object store are the
\* 'hash' values of the entities of the index, and those blobs are whole
C27_NoOrphanBlob ==
  pc \in {"idle", "done"}
    => /\ StoredDigests = IndexedDigests
       /\ \A h \in StoredDigests : blobs[h] = "present"

\* a remove has returned that deleted the blob of its entity while an
\* entity with another digest stays
C27_Witness ==
  /\ pc = "done" /\ last.op = "remove" /\ last.outcome = "returned"
  /\ blobs[last.filehash] = "absent"
  /\ pre.blobs[last.filehash] = "present"
  /\ IndexedDigests # {}


(***************************************************************************)
(* What is at the path of a digest                                         *)
(***************************************************************************)
\* between calls, nothing at the path of a digest is a part of the content
BlobsWhole ==
  pc \in {"idle", "done"} => \A h \in DOMAIN blobs : blobs[h] # "partial"

\* a call of add that is over left every blob that was whole as it was
BlobsKept ==
  (pc = "done" /\ last.op \in AddOps) =>
    \A h \in DOMAIN blobs : pre.blobs[h] = "present" => blobs[h] = "present"

\* C28: between calls, also after a call of add that raised or that the
\* death of the process cut short during the copy, what is at the path of
\* a digest is the whole content of that digest, and a call of add leaves
\* every blob that was there before it as it was
C28_BlobsCompleteAndImmutable == BlobsWhole /\ BlobsKept


(***************************************************************************)
(* The loop error of hash_directory                                        *)
(***************************************************************************)
\* going through the links that hash_directory follows from root leads back
\* to a directory the traversal is in: a link of the tree leads to the root
\* or to a directory above it (a link to an entry below the root is hashed
\* as a link and not followed)
LeadsBack(fs, root) == \E p \in LinksBelow(fs, root) : ToRootOrAbove(fs, p, root)

\* C29: a call on a directory tree raises the loop error only when a link
\* followed from the directory leads back to a directory the traversal is
\* in; a tree without that, the one with two links to one outside
\* directory among them, is hashed and the call returns
C29_LoopErrorOnlyOnCycle ==
  \A i \in 1..Len(outs) :
    /\ (outs[i].outcome = "raised" /\ outs[i].error = "ValueError")
         => LeadsBack(FS, outs[i].root)
    /\ ~LeadsBack(FS, outs[i].root) => outs[i].outcome = "returned"


(***************************************************************************)
(* The Entry of add and the Entry of get                                   *)
(***************************************************************************)
\* C30: when an add has returned its Entry, get of the objectid of that
\* Entry returns an Entry with the same objectid and the same metadata
\* mapping, whether the caller gave bare values or {type, value} dicts
C30_AddEntryIsGetEntry ==
  AddReturned =>
    /\ MetadataGetError(conn, last.result[1].objectid) = ""
    /\ MetadataGet(conn, last.result[1].objectid) = last.result[1].metadata

====
